---- MODULE Spec2Model ----
(***************************************************************************)
(* Verification model of go-shdep: the shared object store                 *)
(* (objstore.GenericStore as built by objstore.NewStore), its lifecycle    *)
(* scheduler and the stable topological sorter it relies on.               *)
(*                                                                         *)
(* An object instance is identified by the serial number of the Register   *)
(* call whose slot carried it: a replica is unobservable to the store      *)
(* until the slot holding it is registered.                                *)
(***************************************************************************)
EXTENDS Integers, Sequences, FiniteSets, TLC

\* ------------------------------------------------------------------ bounds

\* Number of distinct object IDs the objects of a run may have.
NumIDs == 3
\* Total number of dependency registrations made by all RegisterDependencies hooks.
MaxEdges == 2
\* Number of top-level Register calls made by the embedder.
MaxRegister == 2
\* Number of calls the embedder makes outside the documented sequence
\* Register*, Init, Start, Stop, Close (a lifecycle call repeated or out of order,
\* a Register after the first lifecycle call).
MaxStray == 1
\* Number of nodes of the update tree.
NumNodes == 3
\* Total number of Subscribe calls on the nodes of the tree.
MaxSubs == 3
\* Number of NotifyUpdated calls the embedder makes on the tree.
MaxPasses == 2
\* Number of NotifyUpdated calls made in one pass by handlers free to notify any node.
MaxHandlerCalls == 3
\* Number of frames on the call stack of a pass: sweeps and the handlers they invoke.
MaxDepth == 4
\* Number of pullers created on the pull buffer.
MaxPullers == 2
\* Number of Publish calls on the pull buffer.
MaxPublish == 4
NumThreads == 2
MaxReads == 2

IDs == 1..NumIDs

\* The InitParams value handed to Init; "zero" stands for the zero value.
InitParamsValue == "params"

VARIABLES
    useIdLess,                          \* idLess != nil
    objects,                            \* ObjID -> canonical instance
    objectsRegistrationOrder,
    topLevelDependencies,               \* the keys of the slice: maps.Keys fixes no order, none is read
    recentlyRegisteredSharedObjects,
    dependencies,                       \* pending-dependencies set
    initializationOrder,
    initParams,
    pc,                                 \* position inside store.Init: "idle", "collect", "sort";
                                        \* "panicked" once a call has panicked
    stack,                              \* collectDependencies frames: keys of the ranged map not yet visited
    dependenciesGraph,                  \* Init's local dependenciesGraph (kept after Init returns)
    slots,                              \* every Register call: the slot's content before and after
    log,                                \* every hook invocation so far: <<hook, object>>
    lastCall,                           \* the latest lifecycle call: result and hooks it invoked
    phase,                              \* lifecycle calls made in the documented sequence
    strays,                             \* calls made outside the documented sequence
    failed,                             \* some lifecycle call returned an error
    hookFailed,                         \* the lifecycle calls to which a hook returned an error
    inited,                             \* some Init call returned nil
    \* update propagation tree: the fields of NodeBase, per node
    subscribers,
    subscribtions,
    onSubscriptionUpdated,              \* what the callback of the node does
    treeUpdateOrder,                    \* <<>> stands for nil
    updated,
    subscriptionUpdated,
    callStack,                          \* the frames of the pass in flight
    treeResult,                         \* "none", or the fatal error that ended the program
    partial,                            \* the partial flag the handlers of the test read
    eventsOrder,                        \* the root of the latest pass and the handlers that recorded
    passLog,                            \* the calls and handler invocations of the latest pass
    passes,                             \* NotifyUpdated calls made by the embedder
    late,                               \* some Subscribe was called after a NotifyUpdated
    nested,                             \* some processUpdate started inside a handler
    \* pull event buffer: the fields of EventsPullStorage and of its pullers
    eventsPushed,
    events,
    pullersCount,
    cursor,                             \* per puller, in order of creation
    publishCalls,                       \* Publish calls made so far; the n-th publishes event n
    pushedLog,                          \* the events the storage has counted in eventsPushed
    born,                               \* per puller: eventsPushed when it was created
    delivered,                          \* per puller: the events its Pull and Last calls read
    lastPull,                           \* the latest read (Pull or Last): puller, cursor before, events read
    lastLast,                           \* the latest Last call: puller, cursor before, value returned
    pullResult,                         \* "none", or the panic that ended the program
    \* ---- the embedder: objects with events, producer goroutines
    owner,                              \* per puller: the node whose handler pulls from it
    todo,                               \* what a PublishEvent call in progress has still to do
    mutex,                              \* ExternalUpdateLock: 0, or the goroutine holding it
    threadPc,                           \* per producer goroutine: where it is in its loop
    passStart,                          \* the flags found set by the latest NotifyUpdated of a producer
    \* ---- a caller of the sorter
    sortInput,                          \* the graph and the sorted keys handed to the sorter
    sortResult,                         \* what the sorter returned; err "none" before the call
    \* ---- a reader of the recently registered queue
    recentRead                          \* the latest RecentlyRegisteredSharedObjects call: what it
                                        \* returned and how many Register calls had been made

storeVars == <<useIdLess, objects, objectsRegistrationOrder, topLevelDependencies,
               recentlyRegisteredSharedObjects, dependencies, initializationOrder,
               initParams, pc, stack, dependenciesGraph, slots, log, lastCall, phase,
               strays, failed, hookFailed, inited>>

treeVars == <<subscribers, subscribtions, onSubscriptionUpdated, treeUpdateOrder,
              updated, subscriptionUpdated, callStack, treeResult, partial, eventsOrder,
              passLog, passes, late, nested>>

pullVars == <<eventsPushed, events, pullersCount, cursor, publishCalls, pushedLog, born,
              delivered, lastPull, lastLast, pullResult>>

eventVars == <<owner, todo>>

threadVars == <<mutex, threadPc, passStart>>

sortVars == <<sortInput, sortResult>>

readVars == <<recentRead>>

embedVars == <<eventVars, threadVars, sortVars, readVars>>

vars == <<storeVars, treeVars, pullVars, embedVars>>

\* ------------------------------------------------------------- sequences

Range(s) == {s[i] : i \in 1..Len(s)}

Contains(s, x) == \E i \in 1..Len(s) : s[i] = x

IndexOf(s, x) == CHOOSE i \in 1..Len(s) : s[i] = x

\* slices.Reverse
Reverse(s) == [i \in 1..Len(s) |-> s[Len(s) + 1 - i]]

\* Every order in which the keys of a Go map (a set) can be listed.
Perms(S) ==
    {s \in [1..Cardinality(S) -> S] : \A i, j \in 1..Cardinality(S) : i # j => s[i] # s[j]}

\* Sequences of distinct IDs of length at most n.
DistinctSeqs(n) ==
    UNION {Perms(S) : S \in {T \in SUBSET IDs : Cardinality(T) <= n}}

Min(S) == CHOOSE x \in S : \A y \in S : x <= y

\* maps.Keys followed by sort.Slice with idLess (a strict total order): ascending keys.
RECURSIVE SortedKeys(_)
SortedKeys(S) ==
    IF S = {} THEN <<>> ELSE <<Min(S)>> \o SortedKeys(S \ {Min(S)})

\* ------------------------------------------------- topological sorter

\* graph[key] of a Go map: nil for a missing key.
GraphAt(graph, key) == IF key \in DOMAIN graph THEN graph[key] ELSE <<>>

RECURSIVE CountIn(_, _)
CountIn(s, x) ==
    IF s = <<>> THEN 0 ELSE (IF Head(s) = x THEN 1 ELSE 0) + CountIn(Tail(s), x)

\* The keys the inDegree map can hold: the sorted keys and every node some edge leads to.
NodesOf(graph, sortedKeys) ==
    Range(sortedKeys) \cup UNION {Range(graph[k]) : k \in DOMAIN graph}

\* The inDegree map after the first loop: occurrences of v in graph[key], key in sortedKeys.
RECURSIVE InDegree(_, _, _)
InDegree(graph, sortedKeys, v) ==
    IF sortedKeys = <<>> THEN 0
    ELSE CountIn(GraphAt(graph, Head(sortedKeys)), v) + InDegree(graph, Tail(sortedKeys), v)

\* An initial queue filled from the end of sortedKeys.
RECURSIVE SeedQueueBackwards(_, _)
SeedQueueBackwards(inDegree, sortedKeys) ==
    IF sortedKeys = <<>> THEN <<>>
    ELSE SeedQueueBackwards(inDegree, Tail(sortedKeys))
         \o (IF inDegree[Head(sortedKeys)] = 0 THEN <<Head(sortedKeys)>> ELSE <<>>)

\* The initial queue: the nodes of sortedKeys with inDegree 0, in that order.
RECURSIVE SeedQueue(_, _)
SeedQueue(inDegree, sortedKeys) ==
    IF sortedKeys = <<>> THEN <<>>
    ELSE (IF inDegree[Head(sortedKeys)] = 0 THEN <<Head(sortedKeys)>> ELSE <<>>)
         \o SeedQueue(inDegree, Tail(sortedKeys))

\* The inner loop over graph[node]: decrement, enqueue on reaching zero.
RECURSIVE Relax(_, _, _)
Relax(neighbors, inDegree, queue) ==
    IF neighbors = <<>> THEN [inDegree |-> inDegree, queue |-> queue]
    ELSE LET n == Head(neighbors)
             d == [inDegree EXCEPT ![n] = @ - 1]
         IN  Relax(Tail(neighbors), d, IF d[n] = 0 THEN Append(queue, n) ELSE queue)

\* The main loop: pop the head of the queue, append it to the result, relax its edges.
RECURSIVE KahnLoop(_, _, _, _)
KahnLoop(graph, queue, inDegree, result) ==
    IF queue = <<>> THEN result
    ELSE LET node == Head(queue)
             r    == Relax(GraphAt(graph, node), inDegree, Tail(queue))
         IN  KahnLoop(graph, r.queue, r.inDegree, Append(result, node))

\* The sorter without its final length check: a partial result is returned as sorted.
SortWithoutCycleCheck(graph, sortedKeys) ==
    IF Len(sortedKeys) # Cardinality(DOMAIN graph)
    THEN [err |-> "WrongSortedKeys", order |-> <<>>]
    ELSE LET inDegree == [v \in NodesOf(graph, sortedKeys) |-> InDegree(graph, sortedKeys, v)]
         IN  [err |-> "nil",
              order |-> KahnLoop(graph, SeedQueue(inDegree, sortedKeys), inDegree, <<>>)]

StableTopologicalSortWithSortedKeys(graph, sortedKeys) ==
    IF Len(sortedKeys) # Cardinality(DOMAIN graph)
    THEN [err |-> "WrongSortedKeys", order |-> <<>>]
    ELSE LET inDegree == [v \in NodesOf(graph, sortedKeys) |-> InDegree(graph, sortedKeys, v)]
             result   == KahnLoop(graph, SeedQueue(inDegree, sortedKeys), inDegree, <<>>)
         IN  IF Len(result) # Cardinality(DOMAIN graph)
             THEN [err |-> "CyclicDependencies", order |-> <<>>]
             ELSE [err |-> "nil", order |-> result]

\* ------------------------------------------------------------ Register

\* The fields of the store that Register reads and writes, and the slot history.
StoreView ==
    [objects |-> objects,
     objectsRegistrationOrder |-> objectsRegistrationOrder,
     recentlyRegisteredSharedObjects |-> recentlyRegisteredSharedObjects,
     dependencies |-> dependencies,
     slots |-> slots,
     panicked |-> FALSE]

\* A Register that returns without writing the canonical object back into the slot.
SlotKeepsConstructed(existing, constructed) == constructed

\* What a Register call leaves in the caller's slot when the ID is already present.
SlotAfterDedup(existing, constructed) == existing

\* The object the canonical map holds for an ID after a Register call of an ID
\* that is already present.
CanonicalAfterDedup(existing, constructed) == existing

\* The Go types an object of a given ID can have: the type of the first object
\* registered under the ID, and another type that produces the same ID.
OwnType == "own"
ForeignType == "foreign"
Types == {OwnType, ForeignType}

\* A type check that accepts every object.
AssignableToAnything(existingT, slotT) == TRUE

\* existingT.AssignableTo(objT.Elem()) for the concrete pointer types of the objects.
AssignableTo(existingT, slotT) == existingT = slotT

\* store.Register(&slot) where the slot holds a freshly constructed object of ID objID
\* and type typ. The constructed instance is numbered by the position of the call in
\* the slot history; by is the object whose RegisterDependencies makes the call, 0 for
\* the embedder, and late tells that a lifecycle call was made before it. A call that
\* panics leaves the slot as it was and marks the view panicked; nothing runs after it.
RegisterObj(st, objID, by, typ) ==
    LET inst == Len(st.slots) + 1
        st1  == [st EXCEPT !.dependencies = @ \cup {objID},
                           !.recentlyRegisteredSharedObjects = Append(@, objID)]
        slot(v, p) == [id |-> objID, by |-> by, late |-> (lastCall.op # "none"),
                       orig |-> inst, val |-> v, typ |-> typ, panicked |-> p]
    IN  IF st.panicked THEN st
        ELSE IF objID \in DOMAIN st.objects
        THEN IF ~AssignableTo(st.slots[st.objects[objID]].typ, typ)
             THEN [st1 EXCEPT !.slots = Append(@, slot(inst, TRUE)),
                              !.panicked = TRUE]
             ELSE [st1 EXCEPT !.objects[objID] = CanonicalAfterDedup(@, inst),
                              !.slots = Append(@, slot(SlotAfterDedup(st.objects[objID], inst),
                                                       FALSE))]
        ELSE [st1 EXCEPT !.objects = (objID :> inst) @@ @,
                         !.objectsRegistrationOrder = Append(@, objID),
                         !.slots = Append(@, slot(inst, FALSE))]

\* The type of the object constructed for the next dependency when foreign tells which
\* dependency of the hook (counting from the next one) is of the foreign type, 0 for none.
ChildType(foreign) == IF foreign = 1 THEN ForeignType ELSE OwnType

\* An object's RegisterDependencies hook: one Register call per dependency, in order.
RECURSIVE RegisterDependencies(_, _, _, _)
RegisterDependencies(st, obj, children, foreign) ==
    IF children = <<>> THEN st
    ELSE RegisterDependencies(RegisterObj(st, Head(children), obj, ChildType(foreign)),
                              obj, Tail(children), IF foreign = 0 THEN 0 ELSE foreign - 1)

\* Registrations made so far by RegisterDependencies hooks, and by the embedder.
NestedRegistrations == Cardinality({i \in 1..Len(slots) : slots[i].by # 0})
TopLevelRegistrations == Cardinality({i \in 1..Len(slots) : slots[i].by = 0})

\* ------------------------------------------------------ lifecycle hooks

NoErr == [kind |-> "nil", obj |-> 0]
Err(kind) == [kind |-> kind, obj |-> 0]
HookErr(objID) == [kind |-> "HookError", obj |-> objID]

\* A loop that invokes one hook per object of order and returns the first error:
\* failing is the set of objects whose hook returns an error.
\* err is what the loop returns, raised the first error a hook returned to it.
RECURSIVE RunHooks(_, _, _)
RunHooks(order, failing, invoked) ==
    IF order = <<>> THEN [err |-> NoErr, raised |-> NoErr, invoked |-> invoked]
    ELSE IF Head(order) \in failing
         THEN [err |-> HookErr(Head(order)), raised |-> HookErr(Head(order)),
               invoked |-> Append(invoked, Head(order))]
         ELSE RunHooks(Tail(order), failing, Append(invoked, Head(order)))

Tag(kind, ids) == [i \in 1..Len(ids) |-> <<kind, ids[i]>>]

\* The record of a lifecycle call: the error it returned, the hooks it invoked, the
\* order it walked and the first error a hook returned to it.
Call(op, err, hooks, order, raised) ==
    [op |-> op, err |-> err, hooks |-> hooks, order |-> order, raised |-> raised]

\* The documented position of a lifecycle method: Init, Start, Stop, Close.
Rank(op) ==
    CASE op = "Init" -> 1 [] op = "Start" -> 2 [] op = "Stop" -> 3 [] op = "Close" -> 4
      [] OTHER -> 0

\* Bookkeeping of an embedder call: it is the next call of the documented sequence,
\* or one of the calls made outside it.
Called(inSequence) ==
    IF inSequence
    THEN /\ phase' = phase + 1
         /\ strays' = strays
    ELSE /\ strays < MaxStray
         /\ strays' = strays + 1
         /\ phase' = phase

\* Bookkeeping of a lifecycle call op that is being made.
CalledOp(op) == Called(Rank(op) = phase + 1)

\* Bookkeeping of a lifecycle call that returns: its result and the hooks it invoked.
Returned(op, err, hooks, order, raised) ==
    /\ lastCall' = Call(op, err, hooks, order, raised)
    /\ log' = log \o hooks
    /\ failed' = (failed \/ err # NoErr)
    /\ hookFailed' = IF raised # NoErr THEN hookFailed \cup {op} ELSE hookFailed

\* ---------------------------------------------------------------- Init

\* A tree of new nodes with the given handlers and subscriptions: NewNode and
\* SetUpdateHandler for every node, then the Subscribe calls; nothing notified.
TreeWith(subs, handlers) ==
    /\ subscribers = subs.subscribers
    /\ subscribtions = subs.subscribtions
    /\ onSubscriptionUpdated = handlers
    /\ treeUpdateOrder = [n \in DOMAIN handlers |-> <<>>]
    /\ updated = [n \in DOMAIN handlers |-> FALSE]
    /\ subscriptionUpdated = [n \in DOMAIN handlers |-> FALSE]
    /\ callStack = <<>>
    /\ treeResult = "none"
    /\ partial = FALSE
    /\ eventsOrder = <<>>
    /\ passLog = <<>>
    /\ passes = 0
    /\ late = FALSE
    /\ nested = FALSE

\* The subscriber and subscription lists of new nodes.
NoSubscriptions(nodes) ==
    [subscribers |-> [n \in nodes |-> <<>>], subscribtions |-> [n \in nodes |-> <<>>]]

\* A new tree over the given handlers, nothing subscribed.
TreeOf(handlers) == TreeWith(NoSubscriptions(DOMAIN handlers), handlers)

\* No update tree: the state of the tree variables in runs that are about other parts.
NoTree == TreeOf(<<>>)

\* No pull buffer: the state of the buffer variables in runs that are about other parts.
NoPull ==
    /\ eventsPushed = 0
    /\ events = <<>>
    /\ pullersCount = 0
    /\ cursor = <<>>
    /\ publishCalls = 0
    /\ pushedLog = <<>>
    /\ born = <<>>
    /\ delivered = <<>>
    /\ lastPull = [puller |-> 0, from |-> 0, to |-> 0, pushed |-> 0, events |-> <<>>]
    /\ lastLast = [puller |-> 0, from |-> 0, pushed |-> 0, result |-> <<>>]
    /\ pullResult = "none"

\* No object with events and no producer goroutine.
NoEmbedder ==
    /\ owner = <<>>
    /\ todo = <<>>
    /\ mutex = 0
    /\ threadPc = <<>>
    /\ passStart = {}
    /\ sortInput = [graph |-> <<>>, sortedKeys |-> <<>>]
    /\ sortResult = [err |-> "none", order |-> <<>>]
    /\ recentRead = [result |-> <<>>, calls |-> 0, reads |-> 0]

\* NewStore: an empty store; idLess tells whether an ordering of the IDs was given.
NewStore(idLess) ==
    /\ useIdLess = idLess
    /\ objects = <<>>
    /\ objectsRegistrationOrder = <<>>
    /\ topLevelDependencies = {}
    /\ recentlyRegisteredSharedObjects = <<>>
    /\ dependencies = {}
    /\ initializationOrder = <<>>
    /\ initParams = "zero"
    /\ pc = "idle"
    /\ stack = <<>>
    /\ dependenciesGraph = <<>>
    /\ slots = <<>>
    /\ log = <<>>
    /\ lastCall = Call("none", NoErr, <<>>, <<>>, NoErr)
    /\ phase = 0
    /\ strays = 0
    /\ failed = FALSE
    /\ hookFailed = {}
    /\ inited = FALSE

\* No store: the state of the store variables in runs that are about other parts.
NoStore == NewStore(FALSE)

Init ==
    /\ \E idLess \in BOOLEAN : NewStore(idLess)
    /\ NoTree
    /\ NoPull
    /\ NoEmbedder

\* ------------------------------------------------------------- actions

\* The embedder constructs an object with ID objID and calls store.Register(&slot).
Register ==
    /\ pc = "idle"
    /\ TopLevelRegistrations < MaxRegister
    /\ IF lastCall.op = "none" THEN UNCHANGED <<phase, strays>> ELSE Called(FALSE)
    /\ \E objID \in IDs, typ \in Types :
         /\ typ = ForeignType => objID \in DOMAIN objects
         /\ LET st == RegisterObj(StoreView, objID, 0, typ)
            IN  /\ objects' = st.objects
                /\ objectsRegistrationOrder' = st.objectsRegistrationOrder
                /\ recentlyRegisteredSharedObjects' = st.recentlyRegisteredSharedObjects
                /\ dependencies' = st.dependencies
                /\ slots' = st.slots
                /\ pc' = IF st.panicked THEN "panicked" ELSE pc
    /\ UNCHANGED <<useIdLess, topLevelDependencies, initializationOrder, initParams,
                   stack, dependenciesGraph, log, lastCall, failed, hookFailed,
                   inited>>
    /\ UNCHANGED <<treeVars, pullVars, embedVars>>

\* An already-initialized check that looks at the stored initialization order.
AlreadyInitializedByOrder == Len(initializationOrder) # 0

\* A collectDependencies that leaves the pending set as it found it.
PendingKept(pending) == pending

\* The pending set after collectDependencies has taken it: a new, empty map.
PendingTaken(pending) == {}

\* Init's check that it has run before: top-level dependencies were recorded.
AlreadyInitialized == Cardinality(topLevelDependencies) # 0

\* store.Init up to the first call of collectDependencies: the already-initialized
\* check, the snapshot of the pending set (maps.Keys lists the keys in any order) and
\* the head of collectDependencies, which takes the pending set and clears it.
StoreInit ==
    /\ pc = "idle"
    /\ CalledOp("Init")
    /\ IF AlreadyInitialized
       THEN /\ Returned("Init", Err("AlreadyInitialized"), <<>>, <<>>, NoErr)
            /\ UNCHANGED <<topLevelDependencies, dependenciesGraph, stack, dependencies, pc>>
       ELSE /\ topLevelDependencies' = dependencies
            /\ dependenciesGraph' = <<>>
            /\ stack' = <<dependencies>>
            /\ dependencies' = PendingTaken(dependencies)
            /\ pc' = "collect"
            /\ lastCall' = Call("Init", Err("pending"), <<>>, <<>>, NoErr)
            /\ UNCHANGED <<log, failed, hookFailed>>
    /\ UNCHANGED <<useIdLess, objects, objectsRegistrationOrder,
                   recentlyRegisteredSharedObjects, initializationOrder, initParams, slots,
                   inited>>
    /\ UNCHANGED <<treeVars, pullVars, embedVars>>

\* A collectDependencies that takes no key for processed.
NeverProcessed(graph, objID) == FALSE

\* collectDependencies' test that the key already has its entry in the graph.
Processed(graph, objID) == objID \in DOMAIN graph

\* One iteration of the range loop of collectDependencies in the innermost frame.
\* A processed key is skipped. Otherwise gatherRequirements runs the object's
\* RegisterDependencies (children: the dependencies it registers, in order), the
\* keys of the pending set are recorded as the object's graph entry (in any order),
\* and the recursive call takes the pending set and clears it.
CollectStep ==
    /\ pc = "collect"
    /\ stack # <<>>
    /\ stack[Len(stack)] # {}
    /\ \E objID \in stack[Len(stack)] :
         LET rest == [stack EXCEPT ![Len(stack)] = @ \ {objID}]
         IN  IF Processed(dependenciesGraph, objID)
             THEN /\ stack' = rest
                  /\ UNCHANGED <<objects, objectsRegistrationOrder,
                                 recentlyRegisteredSharedObjects, dependencies,
                                 dependenciesGraph, slots, log, lastCall, pc>>
             ELSE \E children \in DistinctSeqs(MaxEdges - NestedRegistrations) :
                  \E foreign \in 0..Len(children) :
                    /\ foreign # 0 => children[foreign] \in DOMAIN objects
                    /\ LET st == RegisterDependencies(StoreView, objID, children, foreign)
                       IN  /\ objects' = st.objects
                           /\ objectsRegistrationOrder' = st.objectsRegistrationOrder
                           /\ recentlyRegisteredSharedObjects' =
                                  st.recentlyRegisteredSharedObjects
                           /\ slots' = st.slots
                           /\ log' = Append(log, <<"RegisterDependencies", objID>>)
                           /\ lastCall' = [lastCall EXCEPT !.hooks =
                                              Append(@, <<"RegisterDependencies", objID>>)]
                           /\ IF st.panicked
                              THEN /\ pc' = "panicked"
                                   /\ dependencies' = st.dependencies
                                   /\ stack' = rest
                                   /\ UNCHANGED dependenciesGraph
                              ELSE /\ \E recorded \in Perms(st.dependencies) :
                                        dependenciesGraph' =
                                            (objID :> recorded) @@ dependenciesGraph
                                   /\ stack' = Append(rest, st.dependencies)
                                   /\ dependencies' = PendingTaken(st.dependencies)
                                   /\ UNCHANGED pc
    /\ UNCHANGED <<useIdLess, topLevelDependencies, initializationOrder, initParams,
                   phase, strays, failed, hookFailed, inited>>
    /\ UNCHANGED <<treeVars, pullVars, embedVars>>

\* The range loop of the innermost collectDependencies frame is exhausted: return
\* to the caller's loop, or to Init when the outermost call returns.
CollectReturn ==
    /\ pc = "collect"
    /\ stack # <<>>
    /\ stack[Len(stack)] = {}
    /\ stack' = SubSeq(stack, 1, Len(stack) - 1)
    /\ pc' = IF Len(stack) = 1 THEN "sort" ELSE "collect"
    /\ UNCHANGED <<useIdLess, objects, objectsRegistrationOrder, topLevelDependencies,
                   recentlyRegisteredSharedObjects, dependencies, initializationOrder,
                   initParams, dependenciesGraph, slots, log, lastCall, phase, strays,
                   failed, hookFailed, inited>>
    /\ UNCHANGED <<treeVars, pullVars, embedVars>>

\* The stability list of Init: sorted keys when idLess is supplied, else registration order.
Stability ==
    IF useIdLess THEN SortedKeys(DOMAIN objects) ELSE objectsRegistrationOrder

\* An Init that walks the sorter's result without reversing it.
InitOrderNotReversed(sorted) == sorted

\* The order in which Init walks the objects: the sorter's result, reversed.
InitOrderOf(sorted) == Reverse(sorted)

\* The hooks the four lifecycle loops invoke: initObj, startObj, stopObj, closeObj.
InitHook == "Init"
StartHook == "Start"
\* A Stop loop that invokes closeObj.
StopInvokesClose == "Close"
StopHook == "Stop"
CloseHook == "Close"

\* An initObj loop that remembers the first error and goes on with the other objects.
InitLoopContinues(order, failing) ==
    [RunHooks(order, failing, <<>>) EXCEPT !.invoked = order]

\* The initObj loop of Init over order: the hooks invoked and the error returned.
InitLoop(order, failing) == RunHooks(order, failing, <<>>)

\* The rest of store.Init after collectDependencies: the coverage assertion, the
\* stability list, the topological sort, the reversal and the initObj loop.
InitFinish ==
    /\ pc = "sort"
    /\ pc' = "idle"
    /\ IF Cardinality(DOMAIN dependenciesGraph) # Cardinality(DOMAIN objects)
       THEN /\ lastCall' = [lastCall EXCEPT !.err = Err("AssertionFailed")]
            /\ failed' = TRUE
            /\ UNCHANGED <<initializationOrder, initParams, log, inited, hookFailed>>
       ELSE LET sorted == StableTopologicalSortWithSortedKeys(dependenciesGraph, Stability)
            IN  IF sorted.err # "nil"
                THEN /\ lastCall' = [lastCall EXCEPT !.err = Err(sorted.err)]
                     /\ failed' = TRUE
                     /\ UNCHANGED <<initializationOrder, initParams, log, inited,
                                     hookFailed>>
                ELSE \E failing \in SUBSET IDs :
                       LET order == InitOrderOf(sorted.order)
                           run   == InitLoop(order, failing)
                       IN  /\ lastCall' = [lastCall EXCEPT
                                             !.err = run.err,
                                             !.raised = run.raised,
                                             !.order = order,
                                             !.hooks = @ \o Tag(InitHook, run.invoked)]
                           /\ log' = log \o Tag(InitHook, run.invoked)
                           /\ failed' = (failed \/ run.err # NoErr)
                           /\ hookFailed' = IF run.raised # NoErr
                                            THEN hookFailed \cup {"Init"}
                                            ELSE hookFailed
                           /\ IF run.err = NoErr
                              THEN /\ initializationOrder' = order
                                   /\ initParams' = InitParamsValue
                                   /\ inited' = TRUE
                              ELSE UNCHANGED <<initializationOrder, initParams, inited>>
    /\ UNCHANGED <<useIdLess, objects, objectsRegistrationOrder, topLevelDependencies,
                   recentlyRegisteredSharedObjects, dependencies, stack,
                   dependenciesGraph, slots, phase, strays>>
    /\ UNCHANGED <<treeVars, pullVars, embedVars>>

\* A startObj loop that walks every object of the store, in registration order.
StartLoopOverObjects(order, failing) == RunHooks(objectsRegistrationOrder, failing, <<>>)

\* A startObj loop that walks the initialization order backwards.
StartLoopBackwards(order, failing) == RunHooks(Reverse(order), failing, <<>>)

\* The startObj loop of Start: the hooks invoked and the error returned.
StartLoop(order, failing) == RunHooks(order, failing, <<>>)

\* A not-initialized check that asks whether Init was called, not whether it succeeded.
NotInitializedByTopLevel ==
    Cardinality(topLevelDependencies) = 0 /\ Cardinality(DOMAIN objects) # 0

\* Start's check that Init has run: the store was not initialized.
NotInitialized == Len(initializationOrder) = 0 /\ Cardinality(DOMAIN objects) # 0

\* store.Start (startObj is supplied by NewStore).
Start ==
    /\ pc = "idle"
    /\ CalledOp("Start")
    /\ IF NotInitialized
       THEN Returned("Start", Err("NotInitialized"), <<>>, <<>>, NoErr)
       ELSE \E failing \in SUBSET IDs :
              LET run == StartLoop(initializationOrder, failing)
              IN  Returned("Start", run.err, Tag(StartHook, run.invoked),
                           initializationOrder, run.raised)
    /\ UNCHANGED <<useIdLess, objects, objectsRegistrationOrder, topLevelDependencies,
                   recentlyRegisteredSharedObjects, dependencies, initializationOrder,
                   initParams, pc, stack, dependenciesGraph, slots, inited>>
    /\ UNCHANGED <<treeVars, pullVars, embedVars>>

\* A Stop loop that walks the initialization order forwards.
StopOrderForward(order) == order

\* The objects visited by the loop of Stop, in order: i from len-1 down to 0.
StopOrder(order) == Reverse(order)

\* The objects visited by the loop of Close, in order: i from len-1 down to 0.
CloseOrder(order) == Reverse(order)

\* store.Stop (stopObj is supplied by NewStore).
Stop ==
    /\ pc = "idle"
    /\ CalledOp("Stop")
    /\ Returned("Stop", NoErr, Tag(StopHook, StopOrder(initializationOrder)),
                initializationOrder, NoErr)
    /\ UNCHANGED <<useIdLess, objects, objectsRegistrationOrder, topLevelDependencies,
                   recentlyRegisteredSharedObjects, dependencies, initializationOrder,
                   initParams, pc, stack, dependenciesGraph, slots, inited>>
    /\ UNCHANGED <<treeVars, pullVars, embedVars>>

\* store.Close (closeObj is supplied by NewStore).
Close ==
    /\ pc = "idle"
    /\ CalledOp("Close")
    /\ Returned("Close", NoErr, Tag(CloseHook, CloseOrder(initializationOrder)),
                initializationOrder, NoErr)
    /\ UNCHANGED <<useIdLess, objects, objectsRegistrationOrder, topLevelDependencies,
                   recentlyRegisteredSharedObjects, dependencies, initializationOrder,
                   initParams, pc, stack, dependenciesGraph, slots, inited>>
    /\ UNCHANGED <<treeVars, pullVars, embedVars>>

\* store.Get: the object the canonical map holds for the ID.
Get(objID) == objects[objID]

Next ==
    \/ Register
    \/ StoreInit
    \/ CollectStep
    \/ CollectReturn
    \/ InitFinish
    \/ Start
    \/ Stop
    \/ Close

Spec == Init /\ [][Next]_vars

\* A RecentlyRegisteredSharedObjects that returns the queue and keeps it.
QueueKept(queue) == queue

\* RecentlyRegisteredSharedObjects: the queue after the call.
QueueAfterRead(queue) == <<>>

\* store.RecentlyRegisteredSharedObjects(), called by the embedder or by a hook
\* between two objects of collectDependencies.
RecentlyRegisteredSharedObjects ==
    /\ pc \in {"idle", "collect"}
    /\ recentRead.reads < MaxReads
    /\ recentRead' = [result |-> recentlyRegisteredSharedObjects, calls |-> Len(slots),
                      reads |-> recentRead.reads + 1]
    /\ recentlyRegisteredSharedObjects' = QueueAfterRead(recentlyRegisteredSharedObjects)
    /\ UNCHANGED <<useIdLess, objects, objectsRegistrationOrder, topLevelDependencies,
                   dependencies, initializationOrder, initParams, pc, stack,
                   dependenciesGraph, slots, log, lastCall, phase, strays, failed,
                   hookFailed, inited>>
    /\ UNCHANGED <<eventVars, threadVars, sortVars>>
    /\ UNCHANGED <<treeVars, pullVars>>

NextRecent ==
    \/ Register
    \/ StoreInit
    \/ CollectStep
    \/ CollectReturn
    \/ InitFinish
    \/ RecentlyRegisteredSharedObjects

SpecRecent == Init /\ [][NextRecent]_vars

\* ================================================= update propagation tree

\* A Subscribe that puts the node in front of the subscribers.
SubscribeFirst(subs, n, node) == [subs EXCEPT ![n] = <<node>> \o @]

\* n.Subscribe(node) on the subscriber lists subs: node is appended to n's subscribers.
SubscribeTo(subs, n, node) == [subs EXCEPT ![n] = Append(@, node)]

\* node.addSubscription(n) on the subscription lists.
AddSubscription(subs, node, n) == [subs EXCEPT ![node] = Append(@, n)]

\* Number of Subscribe calls made so far.
SubscriptionCount ==
    LET RECURSIVE Sum(_)
        Sum(S) == IF S = {} THEN 0
                  ELSE LET n == CHOOSE x \in S : TRUE
                       IN  Len(subscribers[n]) + Sum(S \ {n})
    IN  Sum(DOMAIN subscribers)

\* getDependencies: the entries appended to dest by the walk from n, depth being the
\* number of getDependencies frames on the stack. The walk has no visited set: a walk
\* deeper than the number of nodes is on a cycle and never returns, which ends in the
\* stack overflow of the Go runtime.
RECURSIVE GetDependencies(_, _, _)
RECURSIVE WalkSubscribers(_, _, _)
GetDependencies(n, dest, depth) ==
    IF depth > Cardinality(DOMAIN subscribers)
    THEN [overflow |-> TRUE, dest |-> dest]
    ELSE WalkSubscribers(subscribers[n],
                         Append(dest, [Node |-> n, Dependants |-> subscribers[n]]),
                         depth)

WalkSubscribers(list, dest, depth) ==
    IF list = <<>> THEN [overflow |-> FALSE, dest |-> dest]
    ELSE LET r == GetDependencies(Head(list), dest, depth + 1)
         IN  IF r.overflow THEN r ELSE WalkSubscribers(Tail(list), r.dest, depth)

\* utils.Uniq: the elements of s without repetitions, in order of first occurrence.
RECURSIVE Uniq(_)
Uniq(s) ==
    IF s = <<>> THEN <<>>
    ELSE LET front == Uniq(SubSeq(s, 1, Len(s) - 1))
         IN  IF Contains(front, s[Len(s)]) THEN front ELSE Append(front, s[Len(s)])

\* getUpdateOrder: the walk, the stability list, the dependencies map and the sort.
GetUpdateOrder(n) ==
    LET walk == GetDependencies(n, <<>>, 1)
        deps == walk.dest
        stability == Uniq([i \in 1..Len(deps) |-> deps[i].Node])
        dependenciesMap == [node \in Range(stability) |->
                               deps[CHOOSE i \in 1..Len(deps) : deps[i].Node = node].Dependants]
    IN  IF walk.overflow THEN [err |-> "StackOverflow", order |-> <<>>]
        ELSE StableTopologicalSortWithSortedKeys(dependenciesMap, stability)

\* A processUpdate that computes the order on every call.
NeedsOrderAlways(n) == TRUE

\* processUpdate's test that the root has no cached order yet.
NeedsOrder(n) == treeUpdateOrder[n] = <<>>

\* An entry of the pass log: what happened, to which node, the serial number of the
\* handler invocation (0 for other entries), and on whose account: the caller of a
\* NotifyUpdated, the root of the sweep that invokes a handler.
Event(ev, node, id, by) == [ev |-> ev, node |-> node, id |-> id, by |-> by]

\* Stack frames: the first loop of processUpdate of a root, about to visit the i-th
\* node of its order; a handler that has made a number of NotifyUpdated calls.
SweepFrame(root) == [kind |-> "sweep", node |-> root, i |-> 1, id |-> 0, calls |-> 0]
HandlerFrame(node, id) == [kind |-> "handler", node |-> node, i |-> 0, id |-> id, calls |-> 0]

\* A notifySubscribers that also flags the subscribers of the subscribers.
FlaggedTwoLevels(n) ==
    [m \in DOMAIN subscriptionUpdated |->
        \/ subscriptionUpdated[m]
        \/ Contains(subscribers[n], m)
        \/ \E s \in Range(subscribers[n]) : Contains(subscribers[s], m)]

\* A notifySubscribers that flags the nodes n subscribes to.
FlaggedUpstream(n) ==
    [m \in DOMAIN subscriptionUpdated |->
        subscriptionUpdated[m] \/ Contains(subscribtions[n], m)]

\* A notifySubscribers that flags nobody.
FlagsNobody(n) == subscriptionUpdated

\* notifySubscribers: the subscription-updated flags after n has flagged its subscribers.
Flagged(n) ==
    [m \in DOMAIN subscriptionUpdated |->
        subscriptionUpdated[m] \/ Contains(subscribers[n], m)]

\* n.NotifyUpdated called by caller with the frames below it, logged being the pass
\* log so far (empty when the embedder calls): the updated
\* flag, notifySubscribers, the return when n is flagged itself, else processUpdate
\* up to its first loop (the order is computed when n has none; an error panics).
NotifyUpdated(n, caller, below, logged) ==
    LET flagged == Flagged(n)
        r == GetUpdateOrder(n)
        called == Append(logged, Event("notify", n, 0, caller))
    IN  /\ updated' = [updated EXCEPT ![n] = TRUE]
        /\ subscriptionUpdated' = flagged
        /\ IF flagged[n]
           THEN /\ callStack' = below
                /\ passLog' = called
                /\ UNCHANGED <<treeUpdateOrder, treeResult, nested>>
           ELSE IF NeedsOrder(n) /\ r.err # "nil"
           THEN /\ treeResult' = r.err
                /\ callStack' = below
                /\ passLog' = called
                /\ UNCHANGED <<treeUpdateOrder, nested>>
           ELSE /\ treeUpdateOrder' = IF NeedsOrder(n)
                                      THEN [treeUpdateOrder EXCEPT ![n] = r.order]
                                      ELSE treeUpdateOrder
                /\ callStack' = Append(below, SweepFrame(n))
                /\ passLog' = Append(called, Event("sweep", n, 0, caller))
                /\ nested' = (nested \/ below # <<>>)
                /\ UNCHANGED treeResult

\* The frame on top of the call stack.
Top == callStack[Len(callStack)]

\* The call stack with its top frame replaced by f.
WithTop(f) == [callStack EXCEPT ![Len(callStack)] = f]

\* The embedder subscribes node to n, between passes.
Subscribe ==
    /\ treeResult = "none"
    /\ callStack = <<>>
    /\ SubscriptionCount < MaxSubs
    /\ \E n, node \in DOMAIN subscribers :
         /\ subscribers' = SubscribeTo(subscribers, n, node)
         /\ subscribtions' = AddSubscription(subscribtions, node, n)
    /\ late' = (late \/ passes > 0)
    /\ UNCHANGED <<onSubscriptionUpdated, treeUpdateOrder, updated, subscriptionUpdated,
                   callStack, treeResult, partial, eventsOrder, passLog, passes, nested>>
    /\ UNCHANGED <<storeVars, pullVars, embedVars>>

\* The nodes on which the embedder calls NotifyUpdated.
Roots == DOMAIN subscribers

\* The embedder calls n.NotifyUpdated while no pass is in flight.
NotifyRoot ==
    /\ treeResult = "none"
    /\ callStack = <<>>
    /\ passes < MaxPasses
    /\ passes' = passes + 1
    /\ \E n \in Roots :
         /\ eventsOrder' = <<n>>
         /\ NotifyUpdated(n, n, <<>>, <<>>)
    /\ UNCHANGED <<subscribers, subscribtions, onSubscriptionUpdated, partial, late>>
    /\ UNCHANGED <<storeVars, pullVars, embedVars>>

\* The handlers of the model: what the callback of a node does when it is invoked.
\*   "nil"        no callback is set
\*   "nilFunc"    the callback calls a nil function
\*   "record"     it records its node and returns
\*   "renotify"   it records its node and calls NotifyUpdated on it
\*   "renotifyIfFull"  as renotify, but it does nothing at all in partial mode
\*   "free"       it records its node and calls NotifyUpdated on any nodes
\* handleSubscriptionsUpdated calls no callback when none is set.
Silent(node) == onSubscriptionUpdated[node] = "nil"

\* The callback of the node does nothing in this invocation.
Excluded(node) == onSubscriptionUpdated[node] = "renotifyIfFull" /\ partial

\* The callback of the node calls NotifyUpdated on its node before it returns.
Renotifies(node) ==
    /\ onSubscriptionUpdated[node] \in {"renotify", "renotifyIfFull"}
    /\ ~Excluded(node)

\* A first loop that calls handleSubscriptionsUpdated on every node of the order.
HandlesEveryNode(node) == TRUE

\* hasUpdatedSubscription: the test of the first loop of processUpdate.
HasUpdatedSubscription(node) == subscriptionUpdated[node]

\* One iteration of the first loop of processUpdate: the node is flagged and its
\* handler is invoked, or its flag is cleared at once.
SweepStep ==
    /\ treeResult = "none"
    /\ callStack # <<>>
    /\ Top.kind = "sweep"
    /\ Top.i <= Len(treeUpdateOrder[Top.node])
    /\ LET node == treeUpdateOrder[Top.node][Top.i]
           id == Cardinality({k \in 1..Len(passLog) : passLog[k].ev = "handler"}) + 1
           next == [Top EXCEPT !.i = @ + 1]
       IN  IF HasUpdatedSubscription(node) /\ ~Silent(node)
           THEN IF onSubscriptionUpdated[node] = "nilFunc"
                THEN /\ treeResult' = "NilFunctionCall"
                     /\ UNCHANGED <<callStack, passLog, eventsOrder, subscriptionUpdated>>
                ELSE /\ callStack' = Append(callStack, HandlerFrame(node, id))
                     /\ passLog' = Append(passLog, Event("handler", node, id, Top.node))
                     /\ eventsOrder' = IF Excluded(node) THEN eventsOrder
                                        ELSE Append(eventsOrder, node)
                     /\ UNCHANGED <<treeResult, subscriptionUpdated>>
           ELSE /\ subscriptionUpdated' = [subscriptionUpdated EXCEPT ![node] = FALSE]
                /\ callStack' = WithTop(next)
                /\ UNCHANGED <<treeResult, passLog, eventsOrder>>
    /\ UNCHANGED <<subscribers, subscribtions, onSubscriptionUpdated, treeUpdateOrder,
                   updated, partial, passes, late, nested>>
    /\ UNCHANGED <<storeVars, pullVars, embedVars>>

\* Number of NotifyUpdated calls the handlers have made in the pass in flight.
HandlerCalls == Cardinality({k \in 2..Len(passLog) : passLog[k].ev = "notify"})

\* The nodes on which the running handler may call NotifyUpdated next.
Targets ==
    CASE onSubscriptionUpdated[Top.node] = "free" ->
             IF HandlerCalls < MaxHandlerCalls THEN DOMAIN subscribers ELSE {}
      [] Renotifies(Top.node) ->
             IF Top.calls = 0 THEN {Top.node} ELSE {}
      [] OTHER -> {}

\* The running handler calls NotifyUpdated on a node.
HandlerNotify ==
    /\ treeResult = "none"
    /\ callStack # <<>>
    /\ Top.kind = "handler"
    /\ \E n \in Targets :
         /\ NotifyUpdated(n, Top.node, WithTop([Top EXCEPT !.calls = @ + 1]), passLog)
         /\ Len(callStack') <= MaxDepth
    /\ UNCHANGED <<subscribers, subscribtions, onSubscriptionUpdated, partial,
                   eventsOrder, passes, late>>
    /\ UNCHANGED <<storeVars, pullVars, embedVars>>

\* The running handler returns to the sweep that invoked it, which clears the flag
\* of the node and moves on.
HandlerReturn ==
    /\ treeResult = "none"
    /\ callStack # <<>>
    /\ Top.kind = "handler"
    /\ Renotifies(Top.node) => Top.calls = 1
    /\ LET below == SubSeq(callStack, 1, Len(callStack) - 1)
       IN  callStack' = [below EXCEPT ![Len(below)].i = @ + 1]
    /\ subscriptionUpdated' = [subscriptionUpdated EXCEPT ![Top.node] = FALSE]
    /\ passLog' = Append(passLog, Event("return", Top.node, Top.id, Top.node))
    /\ UNCHANGED <<subscribers, subscribtions, onSubscriptionUpdated, treeUpdateOrder,
                   updated, treeResult, partial, eventsOrder, passes, late, nested>>
    /\ UNCHANGED <<storeVars, pullVars, embedVars>>

\* A processUpdate that leaves the updated flags set.
KeepUpdated(order) == updated

\* The second loop of processUpdate: the updated flag of every node of the order is cleared.
ClearUpdated(order) == [m \in DOMAIN updated |-> updated[m] /\ ~Contains(order, m)]

\* The first loop of processUpdate is over: the second loop runs and processUpdate
\* returns, to the handler that called NotifyUpdated or to the embedder.
SweepEnd ==
    /\ treeResult = "none"
    /\ callStack # <<>>
    /\ Top.kind = "sweep"
    /\ Top.i > Len(treeUpdateOrder[Top.node])
    /\ updated' = ClearUpdated(treeUpdateOrder[Top.node])
    /\ callStack' = SubSeq(callStack, 1, Len(callStack) - 1)
    /\ passLog' = Append(passLog, Event("sweepEnd", Top.node, 0, Top.node))
    /\ UNCHANGED <<subscribers, subscribtions, onSubscriptionUpdated, treeUpdateOrder,
                   subscriptionUpdated, treeResult, partial, eventsOrder, passes, late,
                   nested>>
    /\ UNCHANGED <<storeVars, pullVars, embedVars>>

\* A tree of NumNodes nodes whose handlers may notify any node.
TreeNodes == 1..NumNodes

InitTree ==
    /\ NoStore
    /\ NoPull
    /\ NoEmbedder
    /\ TreeOf([n \in TreeNodes |-> "free"])

NextTree ==
    \/ Subscribe
    \/ NotifyRoot
    \/ SweepStep
    \/ HandlerNotify
    \/ HandlerReturn
    \/ SweepEnd

SpecTree == InitTree /\ [][NextTree]_vars

\* ------------------------------------------------ the diamond of the test

\* The Subscribe calls of Test_UpdatePropagationTree_Basic, in order: <<n, node>>
\* stands for n.Subscribe(node).
DiamondSubscriptions ==
    << <<"f", "e1">>,
       <<"e1", "d1">>, <<"e1", "c1">>, <<"e1", "b1">>,
       <<"d1", "b1">>, <<"c1", "b1">>,
       <<"b1", "a">>,
       <<"f", "e2">>,
       <<"e2", "b2">>, <<"e2", "c2">>, <<"e2", "d2">>,
       <<"d2", "b2">>, <<"c2", "b2">>,
       <<"b2", "a">> >>

\* The handlers of the test: f is given a nil function, a records only, the others
\* record and notify their own node, c1, e2 and c2 only outside partial mode.
DiamondHandlers ==
    [n \in {"f", "e1", "d1", "c1", "b1", "e2", "d2", "c2", "b2", "a"} |->
        CASE n = "f" -> "nilFunc"
          [] n = "a" -> "record"
          [] n \in {"c1", "e2", "c2"} -> "renotifyIfFull"
          [] OTHER -> "renotify"]

\* The lists of the nodes after the first k Subscribe calls of the test.
RECURSIVE SubscribeAll(_)
SubscribeAll(k) ==
    IF k = 0 THEN NoSubscriptions(DOMAIN DiamondHandlers)
    ELSE LET prev == SubscribeAll(k - 1)
             n    == DiamondSubscriptions[k][1]
             node == DiamondSubscriptions[k][2]
         IN  [subscribers |-> SubscribeTo(prev.subscribers, n, node),
              subscribtions |-> AddSubscription(prev.subscribtions, node, n)]

\* The test sets partial to true between its two rounds of passes.
SetPartial ==
    /\ treeResult = "none"
    /\ callStack = <<>>
    /\ ~partial
    /\ partial' = TRUE
    /\ UNCHANGED <<subscribers, subscribtions, onSubscriptionUpdated, treeUpdateOrder,
                   updated, subscriptionUpdated, callStack, treeResult, eventsOrder,
                   passLog, passes, late, nested>>
    /\ UNCHANGED <<storeVars, pullVars, embedVars>>

InitDiamond ==
    /\ NoStore
    /\ NoPull
    /\ NoEmbedder
    /\ TreeWith(SubscribeAll(Len(DiamondSubscriptions)), DiamondHandlers)

NextDiamond ==
    \/ SetPartial
    \/ NotifyRoot
    \/ SweepStep
    \/ HandlerNotify
    \/ HandlerReturn
    \/ SweepEnd

SpecDiamond == InitDiamond /\ [][NextDiamond]_vars

\* ------------------------------------------------- observations on runs

\* The objects a sequence of hook invocations names, in order.
Ids(hooks) == [i \in 1..Len(hooks) |-> hooks[i][2]]

\* The objects whose hook kind was invoked, in invocation order.
HookSeq(hooks, kind) == Ids(SelectSeq(hooks, LAMBDA e : e[1] = kind))

\* The lifecycle hooks invoked on object id so far, in invocation order.
HooksOfObject(id) ==
    LET mine == SelectSeq(log, LAMBDA e : e[2] = id /\ e[1] # "RegisterDependencies")
    IN  [i \in 1..Len(mine) |-> mine[i][1]]

\* x and y both occur in s, x first.
Before(s, x, y) == Contains(s, x) /\ Contains(s, y) /\ IndexOf(s, x) < IndexOf(s, y)

\* An edge of the collected graph: a depends on b.
DependsOn(a, b) == a \in DOMAIN dependenciesGraph /\ Contains(dependenciesGraph[a], b)

\* The objects reachable from S along edges of the collected graph.
RECURSIVE Reach(_)
Reach(S) ==
    LET T == S \cup {b \in IDs : \E a \in S : DependsOn(a, b)}
    IN  IF T = S THEN S ELSE Reach(T)

\* The collected graph has a cycle: some object reaches itself along at least one edge.
Cyclic == \E a, b \in IDs : DependsOn(a, b) /\ a \in Reach({b})

\* The latest call was an Init that returned nil.
InitSucceeded == pc = "idle" /\ lastCall.op = "Init" /\ lastCall.err = NoErr

\* Some Init call collected at least one registered object.
SawObject == \E i \in 1..Len(log) : log[i][1] = "RegisterDependencies"

\* The embedder made its lifecycle calls in the documented order, each at most once:
\* every call outside the documented sequence was a Register.
LifecycleInOrder ==
    strays = Cardinality({i \in 1..Len(slots) : slots[i].late /\ slots[i].by = 0})

\* The lifecycle hooks of object id were invoked at most once each, in the order
\* Init, Start, Stop, Close.
Discipline(id) ==
    LET h == HooksOfObject(id)
    IN  \A i, j \in 1..Len(h) : i < j => Rank(h[i]) < Rank(h[j])

\* ---------------------------------------------------------------- claims

\* C1: after Register returns, the caller's slot refers to the canonical object of its
\* ID, which is the instance carried by the first Register call of that ID, whoever
\* made the call (the embedder or a RegisterDependencies hook at any depth); objects
\* with distinct IDs have distinct canonical instances.
C1_DedupIdentity ==
    /\ \A i \in 1..Len(slots) :
         LET first == Min({j \in 1..Len(slots) : slots[j].id = slots[i].id})
         IN  ~slots[i].panicked =>
                 /\ slots[i].id \in DOMAIN objects
                 /\ slots[i].val = objects[slots[i].id]
                 /\ slots[i].val = slots[first].orig
    /\ \A a, b \in DOMAIN objects : a # b => objects[a] # objects[b]

\* A replica registered two levels down the graph was replaced by the instance the
\* embedder registered first.
C1_Witness ==
    \E i, j, k \in 1..Len(slots) :
        /\ i < k /\ k < j
        /\ slots[i].id = slots[j].id
        /\ slots[i].by = 0
        /\ slots[k].by # 0
        /\ slots[j].by = slots[k].id
        /\ slots[j].orig # slots[i].orig
        /\ slots[j].val = slots[i].orig

\* C11: a Register call panics exactly when the canonical object of its ID has a type
\* that is not assignable to the slot; the panicking call leaves the constructed
\* object in the slot, the canonical map keeps the first object registered under the
\* ID, and nothing runs after the panic.
C11_TypeMismatchPanics ==
    \A i \in 1..Len(slots) :
        LET first == Min({j \in 1..Len(slots) : slots[j].id = slots[i].id})
        IN  /\ slots[i].panicked <=> slots[first].typ # slots[i].typ
            /\ slots[i].panicked =>
                  /\ slots[i].val = slots[i].orig
                  /\ objects[slots[i].id] = slots[first].orig
                  /\ i = Len(slots)
                  /\ pc = "panicked"

\* A RegisterDependencies hook registered an object of the foreign type under an ID
\* the embedder had registered, and the call panicked.
C11_Witness ==
    \E i, j \in 1..Len(slots) :
        /\ i < j
        /\ slots[i].id = slots[j].id
        /\ slots[i].by = 0
        /\ slots[j].by # 0
        /\ slots[j].typ = ForeignType
        /\ slots[j].panicked
        /\ pc = "panicked"

\* C2: when Init returns nil, for every edge (a depends on b) of the collected graph
\* the Init hook of b was invoked, and returned, before the Init hook of a.
C2_InitBeforeDependents ==
    InitSucceeded =>
        \A a, b \in IDs : DependsOn(a, b) => Before(HookSeq(log, "Init"), b, a)

\* A successful Init over a chain of two edges whose head has the smallest ID.
C2_Witness ==
    /\ InitSucceeded
    /\ \E a, b, c \in IDs :
         a < b /\ a < c /\ b # c /\ DependsOn(a, b) /\ DependsOn(b, c)

\* C3: Stop and Close each invoke their hook on the objects of the stored
\* initialization order, exactly reversed, which is the reverse of the order in which
\* the Init hooks ran; for every edge (a depends on b) the hook of a runs before that of b.
C3_ReverseTeardown ==
    (lastCall.op \in {"Stop", "Close"}) =>
        /\ lastCall.hooks = Tag(lastCall.op, Reverse(initializationOrder))
        /\ initializationOrder # <<>> =>
             Ids(lastCall.hooks) = Reverse(HookSeq(log, "Init"))
        /\ \A a, b \in IDs :
             (DependsOn(a, b) /\ Contains(initializationOrder, a))
                 => Before(Ids(lastCall.hooks), a, b)

\* Close walked three objects joined by edges, after Stop had done the same.
C3_Witness ==
    /\ lastCall.op = "Close"
    /\ Len(lastCall.hooks) = 3
    /\ Len(HookSeq(log, "Stop")) = 3
    /\ \E a, b \in IDs : a # b /\ DependsOn(a, b)

\* C4: while the collected graph has a cycle (a self-dependency included) no Init hook
\* has been invoked, and the Init call that collected it returns the
\* cyclic-dependencies error.
C4_CycleDetection ==
    Cyclic =>
        /\ HookSeq(log, "Init") = <<>>
        /\ (pc = "idle" /\ lastCall.op = "Init"
                /\ lastCall.err # Err("AlreadyInitialized"))
              => lastCall.err = Err("CyclicDependencies")

\* Init returned the cyclic-dependencies error for a cycle through two objects.
C4_Witness ==
    /\ pc = "idle"
    /\ lastCall.op = "Init"
    /\ lastCall.err = Err("CyclicDependencies")
    /\ \E a, b \in IDs : a # b /\ DependsOn(a, b) /\ DependsOn(b, a)

\* The initialization order computed from the collected objects and their edge sets
\* alone: the sorter applied to the graph with every dependency list in ascending order.
CanonicalInitOrder ==
    LET graph == [k \in DOMAIN dependenciesGraph |->
                     SortedKeys(Range(dependenciesGraph[k]))]
    IN  InitOrderOf(StableTopologicalSortWithSortedKeys(graph, SortedKeys(DOMAIN graph)).order)

\* C5: with idLess supplied, a successful Init invokes the Init hooks in an order that
\* is a function of the object set and the edge sets alone, whatever the order of the
\* registrations, of the pending set and of each recorded dependency list.
C5_DeterministicInitOrder ==
    (useIdLess /\ InitSucceeded) => HookSeq(log, "Init") = CanonicalInitOrder

\* C6: after Register*, Init, Start, Stop, Close with no call returning an error,
\* every object of the store had exactly its Init, Start, Stop and Close hooks invoked,
\* once each and in that order, and Start visited the objects in the order of Init.
C6_HappyPath ==
    (pc = "idle" /\ phase = 4 /\ strays = 0 /\ ~failed) =>
        /\ \A id \in DOMAIN objects :
             HooksOfObject(id) = <<"Init", "Start", "Stop", "Close">>
        /\ HookSeq(log, "Start") = HookSeq(log, "Init")

\* The whole sequence ran over three objects, one of them registered only by a
\* RegisterDependencies hook.
C6_Witness ==
    /\ pc = "idle" /\ phase = 4 /\ strays = 0 /\ ~failed
    /\ Cardinality(DOMAIN objects) = 3
    /\ \E id \in DOMAIN objects :
         \A i \in 1..Len(slots) : slots[i].id = id => slots[i].by # 0

\* C7 as stated: whatever lifecycle calls are made, no object has a lifecycle hook
\* invoked more than once or out of the order Init, Start, Stop, Close.
C7_AnySequence == \A id \in IDs : Discipline(id)

\* C7: when the lifecycle calls are made in the documented order, each at most once,
\* no object has a lifecycle hook invoked more than once or out of the order
\* Init, Start, Stop, Close.
C7_DocumentedSequence == LifecycleInOrder => \A id \in IDs : Discipline(id)

\* All four calls were made in order, with a Register made after Init, and two
\* objects went through all their hooks.
C7_Witness ==
    /\ LifecycleInOrder
    /\ phase = 4
    /\ strays = 1
    /\ \E a, b \in IDs : a # b /\ Len(HooksOfObject(a)) = 4 /\ Len(HooksOfObject(b)) = 4

\* C8: an Init call made after an Init that collected at least one object returns the
\* already-initialized error, invokes no hook and leaves the stored initialization
\* order and the top-level dependencies as they were.
C8_ReInitRejected ==
    [][(StoreInit /\ SawObject) =>
          /\ lastCall' = Call("Init", Err("AlreadyInitialized"), <<>>, <<>>, NoErr)
          /\ pc' = "idle"
          /\ log' = log
          /\ initializationOrder' = initializationOrder
          /\ topLevelDependencies' = topLevelDependencies]_vars

\* A second Init was rejected after the first one had failed on a cyclic graph.
C8_Witness ==
    /\ lastCall = Call("Init", Err("AlreadyInitialized"), <<>>, <<>>, NoErr)
    /\ SawObject
    /\ Cyclic
    /\ initializationOrder = <<>>

\* C9: a Start call made while no Init has returned nil and the store holds an object
\* returns the not-initialized error and invokes no hook.
C9_StartBeforeInit ==
    [][(Start /\ ~inited /\ DOMAIN objects # {}) =>
          /\ lastCall' = Call("Start", Err("NotInitialized"), <<>>, <<>>, NoErr)
          /\ log' = log]_vars

\* Start was refused after an Init that had failed in an object's Init hook.
C9_Witness ==
    /\ lastCall = Call("Start", Err("NotInitialized"), <<>>, <<>>, NoErr)
    /\ ~inited
    /\ HookSeq(log, "Init") # <<>>

\* C10: when a hook returns an error to Init (resp. Start), the call returns that
\* error, and the hooks it invoked are those of the objects of the order it walked up
\* to the object whose hook returned the error, and of no later object.
C10_HookErrorPropagates ==
    (pc = "idle" /\ lastCall.op \in {"Init", "Start"} /\ lastCall.raised # NoErr) =>
        LET invoked == HookSeq(lastCall.hooks, lastCall.op)
        IN  /\ lastCall.err = lastCall.raised
            /\ invoked # <<>>
            /\ Len(invoked) <= Len(lastCall.order)
            /\ invoked = SubSeq(lastCall.order, 1, Len(invoked))
            /\ lastCall.raised = HookErr(invoked[Len(invoked)])

\* Init stopped at the second of three objects.
C10_Witness ==
    /\ pc = "idle"
    /\ lastCall.op = "Init"
    /\ lastCall.raised # NoErr
    /\ Len(lastCall.order) = 3
    /\ Len(HookSeq(lastCall.hooks, "Init")) = 2

\* ========================================================= pull event buffer

\* The first n elements of s dropped.
Drop(s, n) == SubSeq(s, n + 1, Len(s))

\* The slots with their read counts incremented from the given position on.
MarkRead(slots_, first) ==
    [i \in 1..Len(slots_) |->
        IF i >= first THEN [slots_[i] EXCEPT !.readTimes = @ + 1] ELSE slots_[i]]

\* An erasure that empties the buffer.
EraseAll(slots_, count) == Len(slots_)

\* An erasure that never happens.
EraseNone(slots_, count) == 0

\* The number of leading slots that every puller has read.
RECURSIVE CountToErase(_, _)
CountToErase(slots_, count) ==
    IF slots_ = <<>> \/ Head(slots_).readTimes # count THEN 0
    ELSE 1 + CountToErase(Tail(slots_), count)

\* getEvents(from): the slots returned and the buffer afterwards, or the panic.
GetEvents(from) ==
    LET countToPull == eventsPushed - from
        firstEvtIdx == Len(events) - countToPull
        marked      == MarkRead(events, firstEvtIdx + 1)
    IN  IF countToPull = 0
        THEN [panic |-> FALSE, pulled |-> <<>>, events |-> events]
        ELSE IF firstEvtIdx < 0
        THEN [panic |-> TRUE, pulled |-> <<>>, events |-> events]
        ELSE [panic |-> FALSE,
              pulled |-> Drop(marked, firstEvtIdx),
              events |-> Drop(marked, CountToErase(marked, pullersCount))]

\* A Pull that leaves the cursor where it was.
KeepCursor(c, pulled) == c

\* Pull: the cursor after a pull that returned the given slots.
AdvanceCursor(c, pulled) == c + Len(pulled)

\* The cursor of a new puller.
NewCursor == 0

\* The events carried by the given slots.
EventsOf(slots_) == [i \in 1..Len(slots_) |-> slots_[i].ev]

\* storage.NewPuller(): what it does to the storage and its pullers.
CreatePuller ==
    /\ pullResult = "none"
    /\ pullersCount < MaxPullers
    /\ pullersCount' = pullersCount + 1
    /\ cursor' = Append(cursor, NewCursor)
    /\ born' = Append(born, eventsPushed)
    /\ delivered' = Append(delivered, <<>>)
    /\ UNCHANGED <<eventsPushed, events, publishCalls, pushedLog, lastPull, lastLast, pullResult>>

\* storage.NewPuller().
NewPuller ==
    /\ CreatePuller
    /\ UNCHANGED <<storeVars, treeVars, embedVars>>

\* A storage that drops nothing.
DropsNothing(count) == FALSE

\* Publish returns at once when no puller was ever created.
DropsEvent(count) == count = 0

\* storage.Publish(evt), the n-th call publishing event n: what it does to the storage.
PublishEvt ==
    /\ pullResult = "none"
    /\ publishCalls < MaxPublish
    /\ publishCalls' = publishCalls + 1
    /\ IF DropsEvent(pullersCount)
       THEN UNCHANGED <<eventsPushed, events, pushedLog>>
       ELSE /\ eventsPushed' = eventsPushed + 1
            /\ events' = Append(events, [ev |-> publishCalls + 1, readTimes |-> 0])
            /\ pushedLog' = Append(pushedLog, publishCalls + 1)
    /\ UNCHANGED <<pullersCount, cursor, born, delivered, lastPull, lastLast, pullResult>>

\* storage.Publish(evt).
Publish ==
    /\ PublishEvt
    /\ UNCHANGED <<storeVars, treeVars, embedVars>>

\* p.Pull(): what it does to the storage and to the puller.
PullBy(p) ==
    /\ pullResult = "none"
    /\ LET r == GetEvents(cursor[p])
       IN  IF r.panic
           THEN /\ pullResult' = "InvalidEventIndex"
                /\ UNCHANGED <<events, cursor, delivered, lastPull>>
           ELSE /\ events' = r.events
                /\ cursor' = [cursor EXCEPT ![p] = AdvanceCursor(@, r.pulled)]
                /\ delivered' = [delivered EXCEPT ![p] = @ \o EventsOf(r.pulled)]
                /\ lastPull' = [puller |-> p, from |-> cursor[p], to |-> cursor'[p],
                                pushed |-> eventsPushed, events |-> EventsOf(r.pulled)]
                /\ UNCHANGED pullResult
    /\ UNCHANGED <<eventsPushed, pullersCount, publishCalls, pushedLog, born, lastLast>>

\* puller.Pull() by one of the pullers.
Pull ==
    /\ \E p \in 1..Len(cursor) : PullBy(p)
    /\ UNCHANGED <<storeVars, treeVars, embedVars>>

\* What Last hands back of the events the puller had not read: the most recent
\* one, or nothing (nil) when there is none.
LatestOf(evts) == IF evts = <<>> THEN <<>> ELSE <<evts[Len(evts)]>>

\* puller.Last() by one of the pullers: the unread slots are read as by Pull,
\* only the most recent event is handed back.
Last ==
    /\ pullResult = "none"
    /\ \E p \in 1..Len(cursor) :
         LET r == GetEvents(cursor[p])
         IN  IF r.panic
             THEN /\ pullResult' = "InvalidEventIndex"
                  /\ lastLast' = [puller |-> p, from |-> cursor[p], pushed |-> eventsPushed,
                                  result |-> <<>>]
                  /\ UNCHANGED <<events, cursor, delivered, lastPull>>
             ELSE /\ events' = r.events
                  /\ cursor' = [cursor EXCEPT ![p] = AdvanceCursor(@, r.pulled)]
                  /\ delivered' = [delivered EXCEPT ![p] = @ \o EventsOf(r.pulled)]
                  /\ lastPull' = [puller |-> p, from |-> cursor[p], to |-> cursor'[p],
                                  pushed |-> eventsPushed, events |-> EventsOf(r.pulled)]
                  /\ lastLast' = [puller |-> p, from |-> cursor[p], pushed |-> eventsPushed,
                                  result |-> LatestOf(EventsOf(r.pulled))]
                  /\ UNCHANGED pullResult
    /\ UNCHANGED <<eventsPushed, pullersCount, publishCalls, pushedLog, born>>
    /\ UNCHANGED <<storeVars, treeVars, embedVars>>

InitPull ==
    /\ NoStore
    /\ NoTree
    /\ NoPull
    /\ NoEmbedder

NextPull ==
    \/ NewPuller
    \/ Publish
    \/ Pull
    \/ Last

SpecPull == InitPull /\ [][NextPull]_vars

\* ------------------------------------------------ a caller of the sorter

\* The lists of neighbours a key of the graph can have.
AdjLists == UNION {[1..n -> IDs] : n \in 0..MaxEdges}

\* The graphs handed to the sorter: any keys, any lists of neighbours.
SortGraphs == UNION {[K -> AdjLists] : K \in SUBSET IDs}

\* The lists handed to the sorter as sorted keys.
SortKeyLists == UNION {[1..n -> IDs] : n \in 0..NumIDs}

\* utils.StableTopologicalSortWithSortedKeys(graph, sortedKeys) is called.
SortCall ==
    /\ sortResult.err = "none"
    /\ sortResult' = StableTopologicalSortWithSortedKeys(sortInput.graph, sortInput.sortedKeys)
    /\ UNCHANGED <<sortInput, eventVars, threadVars, readVars>>
    /\ UNCHANGED <<storeVars, treeVars, pullVars>>

InitSort ==
    /\ NoStore
    /\ NoTree
    /\ NoPull
    /\ owner = <<>>
    /\ todo = <<>>
    /\ mutex = 0
    /\ threadPc = <<>>
    /\ passStart = {}
    /\ sortInput \in [graph : SortGraphs, sortedKeys : SortKeyLists]
    /\ sortResult = [err |-> "none", order |-> <<>>]
    /\ recentRead = [result |-> <<>>, calls |-> 0, reads |-> 0]

NextSort == SortCall

SpecSort == InitSort /\ [][NextSort]_vars

\* ------------------------------------------------ an object with events

\* The node of the object that publishes events; the other nodes are consumers.
Publisher == 1

\* The handler of a consumer: it pulls from the pullers it holds and returns.
EventHandlers == [n \in TreeNodes |-> IF n = Publisher THEN "record" ELSE "pull"]

\* PublishEvent: the two calls of its body, in order.
PublishEventBody == <<"Publish", "NotifyUpdated">>

\* The pullers a node holds, in creation order.
PullersOf(n) == SelectSeq([p \in 1..Len(owner) |-> p], LAMBDA p : owner[p] = n)

\* Nothing is running: no pass, no PublishEvent call, no panic.
Quiet ==
    /\ treeResult = "none"
    /\ pullResult = "none"
    /\ callStack = <<>>
    /\ todo = <<>>

\* A consumer subscribes to an object, before anything is published.
SubscribeObj ==
    /\ Quiet
    /\ publishCalls = 0
    /\ Subscribe

\* A consumer asks the object for a puller: publisher.NewEventPuller().
NewEventPuller ==
    /\ Quiet
    /\ CreatePuller
    /\ \E n \in TreeNodes \ {Publisher} : owner' = Append(owner, n)
    /\ UNCHANGED <<todo, threadVars, sortVars, readVars>>
    /\ UNCHANGED <<storeVars, treeVars>>

\* The embedder calls publisher.PublishEvent(ctx, evtTime, evt).
PublishEvent ==
    /\ Quiet
    /\ passes < MaxPasses
    /\ publishCalls < MaxPublish
    /\ todo' = PublishEventBody
    /\ UNCHANGED <<owner, threadVars, sortVars, readVars>>
    /\ UNCHANGED <<storeVars, treeVars, pullVars>>

\* PublishEvent calls o.evtPublisher.Publish(evt).
EventPublish ==
    /\ todo # <<>>
    /\ Head(todo) = "Publish"
    /\ callStack = <<>>
    /\ PublishEvt
    /\ todo' = Tail(todo)
    /\ UNCHANGED <<owner, threadVars, sortVars, readVars>>
    /\ UNCHANGED <<storeVars, treeVars>>

\* PublishEvent calls o.NotifyUpdated(ctx, evtTime).
EventNotify ==
    /\ todo # <<>>
    /\ Head(todo) = "NotifyUpdated"
    /\ callStack = <<>>
    /\ treeResult = "none"
    /\ passes' = passes + 1
    /\ eventsOrder' = <<Publisher>>
    /\ NotifyUpdated(Publisher, Publisher, <<>>, <<>>)
    /\ todo' = Tail(todo)
    /\ UNCHANGED <<subscribers, subscribtions, onSubscriptionUpdated, partial, late>>
    /\ UNCHANGED <<owner, threadVars, sortVars, readVars>>
    /\ UNCHANGED <<storeVars, pullVars>>

\* The running handler of a consumer pulls from the next of its pullers; a panic
\* of the Pull unwinds the pass.
HandlerPull ==
    /\ treeResult = "none"
    /\ callStack # <<>>
    /\ Top.kind = "handler"
    /\ onSubscriptionUpdated[Top.node] = "pull"
    /\ Top.calls < Len(PullersOf(Top.node))
    /\ PullBy(PullersOf(Top.node)[Top.calls + 1])
    /\ callStack' = WithTop([Top EXCEPT !.calls = @ + 1])
    /\ treeResult' = pullResult'
    /\ UNCHANGED <<subscribers, subscribtions, onSubscriptionUpdated, treeUpdateOrder,
                   updated, subscriptionUpdated, partial, eventsOrder,
                   passLog, passes, late, nested>>
    /\ UNCHANGED <<storeVars, embedVars>>

InitEvent ==
    /\ NoStore
    /\ NoPull
    /\ NoEmbedder
    /\ TreeOf(EventHandlers)

NextEvent ==
    \/ SubscribeObj
    \/ NewEventPuller
    \/ PublishEvent
    \/ EventPublish
    \/ EventNotify
    \/ SweepStep
    \/ HandlerPull
    \/ HandlerReturn
    \/ SweepEnd

SpecEvent == InitEvent /\ [][NextEvent]_vars

\* ------------------------------------------------ producer goroutines

\* The goroutines that feed external updates into the tree.
Producers == 1..NumThreads

\* The nodes with a transient flag set.
FlagsSet == {n \in DOMAIN updated : updated[n] \/ subscriptionUpdated[n]}

\* The objects subscribe to each other before any producer runs.
Setup ==
    /\ passes = 0
    /\ mutex = 0
    /\ Subscribe

\* ExternalUpdateLock.Lock() by a producer that has an update to deliver.
Lock ==
    /\ treeResult = "none"
    /\ passes < MaxPasses
    /\ \E t \in Producers :
         /\ threadPc[t] = "idle"
         /\ mutex = 0
         /\ mutex' = t
         /\ threadPc' = [threadPc EXCEPT ![t] = "locked"]
    /\ UNCHANGED <<passStart, eventVars, sortVars, readVars>>
    /\ UNCHANGED <<storeVars, treeVars, pullVars>>

\* The producer holding the lock calls NotifyUpdated on its node.
ProducerNotify ==
    /\ treeResult = "none"
    /\ \E t \in Producers :
         /\ threadPc[t] = "locked"
         /\ threadPc' = [threadPc EXCEPT ![t] = "notified"]
    /\ passStart' = FlagsSet
    /\ passes' = passes + 1
    /\ \E n \in Roots :
         /\ eventsOrder' = <<n>>
         /\ NotifyUpdated(n, n, callStack, <<>>)
    /\ UNCHANGED <<subscribers, subscribtions, onSubscriptionUpdated, partial, late>>
    /\ UNCHANGED <<mutex, eventVars, sortVars, readVars>>
    /\ UNCHANGED <<storeVars, pullVars>>

\* NotifyUpdated has returned to the producer: ExternalUpdateLock.Unlock().
Unlock ==
    /\ treeResult = "none"
    /\ callStack = <<>>
    /\ \E t \in Producers :
         /\ threadPc[t] = "notified"
         /\ mutex = t
         /\ mutex' = 0
         /\ threadPc' = [threadPc EXCEPT ![t] = "idle"]
    /\ UNCHANGED <<passStart, eventVars, sortVars, readVars>>
    /\ UNCHANGED <<storeVars, treeVars, pullVars>>

InitThreads ==
    /\ NoStore
    /\ NoPull
    /\ TreeOf([n \in TreeNodes |-> "free"])
    /\ owner = <<>>
    /\ todo = <<>>
    /\ mutex = 0
    /\ threadPc = [t \in Producers |-> "idle"]
    /\ passStart = {}
    /\ sortInput = [graph |-> <<>>, sortedKeys |-> <<>>]
    /\ sortResult = [err |-> "none", order |-> <<>>]
    /\ recentRead = [result |-> <<>>, calls |-> 0, reads |-> 0]

NextThreads ==
    \/ Setup
    \/ Lock
    \/ ProducerNotify
    \/ SweepStep
    \/ HandlerNotify
    \/ HandlerReturn
    \/ SweepEnd
    \/ Unlock

SpecThreads == InitThreads /\ [][NextThreads]_vars

\* ------------------------------------------- update tree: observations

\* The nodes of the tree.
Nodes == DOMAIN subscribers

\* The k-th entry of the pass log is an invocation of the handler of n.
InvokedAt(k, n) == passLog[k].ev = "handler" /\ passLog[k].node = n

\* The k-th entry of the pass log is a NotifyUpdated call on n.
NotifiedAt(k, n) == passLog[k].ev = "notify" /\ passLog[k].node = n

\* The positions of the pass log.
Log == 1..Len(passLog)

\* The root of the latest pass: the node the embedder called NotifyUpdated on.
PassRoot == passLog[1].node

\* Every NotifyUpdated of the latest pass was called on a node of the root's cached order.
TargetsInCachedOrder ==
    \A k \in Log : passLog[k].ev = "notify" => Contains(treeUpdateOrder[PassRoot], passLog[k].node)

\* The latest pass has returned to the embedder.
PassDone == passes > 0 /\ callStack = <<>> /\ treeResult = "none"

\* The subscriptions form no cycle: the walk from every node ends.
Acyclic == \A n \in Nodes : ~GetDependencies(n, <<>>, 1).overflow

\* The tree is one the library documents: its subscriptions form no cycle and were
\* all made before the first NotifyUpdated.
Documented == Acyclic /\ ~late

\* C12: in a pass, on an acyclic tree whose subscriptions were all made before the
\* first notification, whose handlers call NotifyUpdated only on nodes of the root's cached
\* order, when M subscribes to U and both handlers are invoked, every invocation of
\* U's handler has returned before any invocation of M's handler starts.
C12_DagOrder ==
    Documented /\ TargetsInCachedOrder =>
        \A U, M \in Nodes :
            Contains(subscribers[U], M) =>
                \A i, j \in Log :
                    InvokedAt(i, U) /\ InvokedAt(j, M) =>
                        \E r \in Log :
                            /\ i < r /\ r < j
                            /\ passLog[r].ev = "return"
                            /\ passLog[r].id = passLog[i].id

\* C13: in a pass, on an acyclic tree whose subscriptions were all made before the
\* first notification, whose handlers call NotifyUpdated only on nodes of the root's cached
\* order, the handler of each node is invoked at most once.
C13_AtMostOnce ==
    Documented /\ TargetsInCachedOrder =>
        \A n \in Nodes : Cardinality({k \in Log : InvokedAt(k, n)}) <= 1

OpenSweeps(a, b) ==
    Cardinality({x \in a..b : passLog[x].ev = "sweep"})
        - Cardinality({x \in a..b : passLog[x].ev = "sweepEnd"})

\* Entry j of the pass log lies inside the NotifyUpdated call logged at entry k.
InsideCall(k, j) ==
    /\ k < j
    /\ passLog[k + 1].ev = "sweep"
    /\ \A e \in (k + 1)..j : OpenSweeps(k + 1, e) > 0

\* Entry k of the pass log is a NotifyUpdated call by the handler of another node
\* that comes earlier in the cached order of the root of the pass.
CallOnLaterNode(k) ==
    /\ k > 1
    /\ passLog[k].ev = "notify"
    /\ passLog[k].by # passLog[k].node
    /\ Before(treeUpdateOrder[PassRoot], passLog[k].by, passLog[k].node)

\* C15: when a pass has returned, on an acyclic tree whose subscriptions were all made
\* before the first notification, whose handlers call NotifyUpdated only on nodes of the
\* root's cached order: for every NotifyUpdated that the handler of M called on a
\* node N later in the cached order, no handler ran inside that call, the handler
\* of N was invoked exactly once in the pass, and that was after every invocation
\* of the handlers of the nodes N subscribes to.
C15_Coalescing ==
    Documented /\ TargetsInCachedOrder /\ PassDone =>
        \A k \in Log :
            CallOnLaterNode(k) =>
                LET N == passLog[k].node
                IN  /\ \A j \in Log : passLog[j].ev = "handler" => ~InsideCall(k, j)
                    /\ Cardinality({j \in Log : InvokedAt(j, N)}) = 1
                    /\ \A i, j \in Log :
                           /\ InvokedAt(j, N)
                           /\ passLog[i].ev = "handler"
                           /\ Contains(subscribtions[N], passLog[i].node)
                           => i < j

C17_HasUpdated ==
    Documented /\ TargetsInCachedOrder /\ treeResult = "none" =>
        \A n \in Nodes :
            updated[n] <=> (callStack # <<>> /\ \E k \in Log : NotifiedAt(k, n))

\* The subscriptions reachable from n contain a cycle: the walk from n does not end.
CycleReachable(n) == GetDependencies(n, <<>>, 1).overflow

\* C19: when the embedder's first NotifyUpdated on a node from which a cycle of
\* subscriptions is reachable is over, it has ended with the cyclic-dependencies
\* error of the topological sort, and no handler was invoked.
C19_CycleDetected ==
    /\ ~late
    /\ passes > 0
    /\ callStack = <<>>
    /\ CycleReachable(PassRoot)
    => /\ treeResult = "CyclicDependencies"
       /\ \A k \in Log : passLog[k].ev # "handler"

\* The events the test expects to have recorded after a pass from f, e1 or e2.
ExpectedEvents(root, isPartial) ==
    CASE root = "f" /\ ~isPartial ->
             <<"f", "e1", "e2", "d1", "c1", "c2", "d2", "b1", "b2", "a">>
      [] root = "f" /\ isPartial -> <<"f", "e1", "d1", "b1", "a">>
      [] root = "e1" /\ ~isPartial -> <<"e1", "d1", "c1", "b1", "a">>
      [] root = "e1" /\ isPartial -> <<"e1", "d1", "b1", "a">>
      [] root = "e2" /\ ~isPartial -> <<"e2", "c2", "d2", "b2", "a">>
      [] root = "e2" /\ isPartial -> <<"e2", "d2", "b2", "a">>

\* The first loop of the processUpdate called by the embedder is over.
PassEnding ==
    /\ Len(callStack) = 1
    /\ Top.kind = "sweep"
    /\ Top.i > Len(treeUpdateOrder[Top.node])

\* C18: on the diamond of the test, whatever passes came before, the events recorded
\* by a pass from f, e1 or e2 (the root, then every handler that ran, in order) are
\* the list the test expects, in full and in partial mode: a pass from f with every
\* handler re-notifying gives f, e1, e2, d1, c1, c2, d2, b1, b2, a, each once.
C18_DiamondOrder ==
    PassEnding /\ PassRoot \in {"f", "e1", "e2"} =>
        eventsOrder = ExpectedEvents(PassRoot, partial)

\* A second pass from f with every handler re-notifying is ending, with the ten
\* names recorded.
C18_Witness ==
    /\ PassEnding
    /\ passes = 2
    /\ PassRoot = "f"
    /\ ~partial
    /\ Len(eventsOrder) = 10
    /\ eventsOrder[10] = "a"

\* ------------------------------------------- pull buffer: observations

\* The pullers created before the storage counted its first event.
EarlyPullers == {p \in 1..Len(cursor) : born[p] = 0}

C21_LatePullerSeesOnlyLater ==
    /\ pullResult = "none"
    /\ \A p \in 1..Len(cursor) :
           /\ cursor[p] >= born[p]
           /\ delivered[p] = SubSeq(pushedLog, born[p] + 1, born[p] + Len(delivered[p]))

\* The pullers registered with the storage.
Pullers == 1..Len(cursor)

\* The events in the buffer, oldest first.
Buffered == EventsOf(events)

\* C22: a step removes from the buffer only slots that every registered puller has
\* read, and the buffer gets shorter only in a Pull that returned events to a
\* puller no other puller was behind of, the slots that stay being a tail of the
\* buffer; while all pullers were created before the first event, the buffer holds
\* exactly the events the slowest puller has not read.
C22_Retention ==
    [][/\ \A e \in Range(Buffered) \ Range(EventsOf(events')) :
             \A p \in 1..Len(cursor') : Contains(delivered'[p], e)
       /\ Len(events') < Len(events) =>
             LET p == lastPull'.puller
             IN  /\ lastPull' # lastPull
                 /\ cursor'[p] > cursor[p]
                 /\ \A q \in Pullers : cursor[p] <= cursor[q]
                 /\ EventsOf(events') = Drop(Buffered, Len(events) - Len(events'))
       /\ Pullers # {} /\ EarlyPullers = Pullers =>
             Buffered = Drop(pushedLog, Min({cursor[q] : q \in Pullers}))]_vars

\* The pulls of the test: the first puller has pulled 1 and 2 and then 3 and 4, the
\* second all four at once, and the buffer, which held 2 slots before the latest
\* Pull, is empty.
C22_Witness ==
    /\ born = <<0, 0>>
    /\ lastPull = [puller |-> 1, from |-> 2, to |-> 4, pushed |-> 4, events |-> <<3, 4>>]
    /\ cursor = <<4, 4>>
    /\ events = <<>>

\* C23: in any interleaving of NewPuller, Publish and Pull, every slot in the buffer
\* is unread by some registered puller, its read count is the number of registered
\* pullers that have read it, and when no puller has anything left to pull the
\* buffer is empty.
C23_RetainedOnlyWhileUnread ==
    /\ \A i \in 1..Len(events) :
           /\ \E p \in Pullers : ~Contains(delivered[p], events[i].ev)
           /\ events[i].readTimes =
                  Cardinality({p \in Pullers : Contains(delivered[p], events[i].ev)})
    /\ (\A p \in Pullers : cursor[p] = eventsPushed) => events = <<>>

\* A puller created after event 1 was published and the first puller have both
\* pulled it, and the buffer is empty.
C23_Witness ==
    /\ born = <<0, 1>>
    /\ delivered = <<<<1>>, <<1>>>>
    /\ events = <<>>
    /\ pullResult = "none"

\* C24: a Publish call made while no puller is registered leaves the buffer
\* and the total-pushed counter as they were; a Publish call made with at
\* least one puller appends exactly one slot, holding the published event
\* with read count 0, and adds one to the total-pushed counter.  In both
\* cases nothing else of the storage or of its pullers changes.
C24_PublishEffect ==
    [][publishCalls' # publishCalls =>
          /\ publishCalls' = publishCalls + 1
          /\ pullersCount' = pullersCount /\ cursor' = cursor
          /\ IF pullersCount = 0
             THEN events' = events /\ eventsPushed' = eventsPushed
             ELSE /\ events' = Append(events, [ev |-> publishCalls', readTimes |-> 0])
                  /\ eventsPushed' = eventsPushed + 1]_vars

\* One event was published before any puller existed and was discarded, the
\* next one after a puller was created and is in the buffer.
C24_Witness ==
    /\ publishCalls = 2
    /\ pullersCount = 1
    /\ eventsPushed = 1
    /\ events = <<[ev |-> 2, readTimes |-> 0]>>

\* C25: a Last call hands back the most recently published event when the
\* puller had unread events and nothing (nil) when it had none; it reads every
\* unread event of the puller, so the puller's cursor is then at the
\* total-pushed count and the next Pull or Last of the same puller, with
\* nothing published in between, returns nothing; and the slots it leaves in
\* the buffer are exactly those some puller has not read yet (with two pullers
\* and two unread events: both slots after the first Last, none after the
\* second).
C25_Last ==
    [][/\ lastLast' # lastLast =>
             LET p == lastLast'.puller
             IN  /\ pullResult' = "none"
                 /\ lastLast'.from = cursor[p]
                 /\ lastLast'.result =
                        IF cursor[p] = eventsPushed THEN <<>>
                        ELSE <<pushedLog[eventsPushed]>>
                 /\ cursor'[p] = eventsPushed
                 /\ \A i \in 1..Len(events') : events'[i].readTimes < pullersCount
                 /\ Len(events') = Cardinality({i \in 1..Len(events) :
                        \E q \in Pullers : ~Contains(delivered'[q], events[i].ev)})
       /\ (/\ lastLast.puller # 0
           /\ lastPull = [puller |-> lastLast.puller, from |-> lastLast.from,
                          to |-> eventsPushed, pushed |-> eventsPushed,
                          events |-> lastPull.events]
           /\ lastPull'.puller = lastLast.puller
           /\ eventsPushed' = eventsPushed
           /\ pullResult' = "none"
           /\ lastPull' # lastPull) =>
             /\ lastPull'.events = <<>>
             /\ lastLast' # lastLast => lastLast'.result = <<>>]_vars

\* C26: in the pass a PublishEvent call starts, a Pull made by the handler of a
\* subscriber, from a puller created before the call, returns, and the puller
\* has then received the event of the call.
C26_PublishedBeforeNotified ==
    [][(/\ callStack # <<>>
        /\ Top.kind = "handler"
        /\ (lastPull' # lastPull \/ pullResult' # pullResult)) =>
           /\ pullResult' = "none"
           /\ Contains(delivered'[lastPull'.puller], publishCalls)]_vars

\* ------------------------------------------- the sorter: observations

\* The keys reachable from v along at least one edge and at most k edges.
RECURSIVE ReachableIn(_, _, _)
ReachableIn(graph, v, k) ==
    IF k = 0 THEN {}
    ELSE LET next == Range(GraphAt(graph, v))
         IN  next \cup UNION {ReachableIn(graph, w, k - 1) : w \in next}

\* The vertices of the graph: its keys and the keys its edges lead to.
Vertices(graph) == DOMAIN graph \cup UNION {Range(graph[k]) : k \in DOMAIN graph}

\* The keys reachable from v along at least one edge.
ReachableFrom(graph, v) == ReachableIn(graph, v, Cardinality(Vertices(graph)))

\* No vertex of the graph is reachable from itself.
GraphAcyclic(graph) == \A v \in Vertices(graph) : v \notin ReachableFrom(graph, v)

\* The edges of the graph lead to keys of the graph.
Closed(graph) == Vertices(graph) = DOMAIN graph

\* The list holds every key of the graph exactly once.
StabilityList(graph, keys) ==
    /\ Range(keys) = DOMAIN graph
    /\ Len(keys) = Cardinality(DOMAIN graph)

\* The sorter was handed an acyclic graph with a stability list and has returned.
SortedAcyclic ==
    /\ sortResult.err # "none"
    /\ GraphAcyclic(sortInput.graph)
    /\ Closed(sortInput.graph)
    /\ StabilityList(sortInput.graph, sortInput.sortedKeys)

\* The keys that no edge of the graph leads to, in the order of the list.
Unconstrained(graph, keys) ==
    SelectSeq(keys, LAMBDA v : \A k \in DOMAIN graph : ~Contains(graph[k], v))

\* C27 (as stated): for an acyclic graph and a stability list, the order returned
\* holds every vertex after all the vertices reachable from it through graph[v].
C27_AfterReachable ==
    SortedAcyclic =>
        /\ sortResult.err = "nil"
        /\ \A v \in DOMAIN sortInput.graph :
               \A w \in ReachableFrom(sortInput.graph, v) :
                   Before(sortResult.order, w, v)

\* C27 (amended): for an acyclic graph and a stability list, the sorter returns
\* without error an order that holds every vertex once, every vertex before all
\* the vertices reachable from it through graph[v]; the vertices that no edge
\* leads to come first, in stability-list order.
C27_BeforeReachable ==
    SortedAcyclic =>
        LET graph == sortInput.graph
            order == sortResult.order
            free  == Unconstrained(graph, sortInput.sortedKeys)
        IN  /\ sortResult.err = "nil"
            /\ Len(order) = Cardinality(DOMAIN graph)
            /\ Range(order) = DOMAIN graph
            /\ \A v \in DOMAIN graph :
                   \A w \in ReachableFrom(graph, v) : Before(order, v, w)
            /\ SubSeq(order, 1, Len(free)) = free

\* 1 depends on 2 and 3, 2 on 3; the stability list is 3, 2, 1: the sorter has
\* returned 1, 2, 3.
C27_Witness ==
    /\ sortInput = [graph |-> [k \in {1, 2, 3} |->
                                  CASE k = 1 -> <<2, 3>> [] k = 2 -> <<3>> [] OTHER -> <<>>],
                    sortedKeys |-> <<3, 2, 1>>]
    /\ sortResult = [err |-> "nil", order |-> <<1, 2, 3>>]

\* The sorter was handed a graph with a list holding every key of the graph
\* exactly once, and has returned.
SortedWithStabilityList ==
    /\ sortResult.err # "none"
    /\ StabilityList(sortInput.graph, sortInput.sortedKeys)

\* The order holds every key of the graph exactly once.
EveryVertexOnce(graph, order) ==
    /\ Len(order) = Cardinality(DOMAIN graph)
    /\ Range(order) = DOMAIN graph

\* C28 (as stated): given a stability list, the sorter reports the
\* cyclic-dependencies error exactly when the graph contains a cycle, and for an
\* acyclic graph whose edges lead to keys of the graph the result holds every
\* vertex exactly once.
C28_CyclicIffCycle ==
    SortedWithStabilityList =>
        /\ sortResult.err = "CyclicDependencies" <=> ~GraphAcyclic(sortInput.graph)
        /\ GraphAcyclic(sortInput.graph) /\ Closed(sortInput.graph) =>
               /\ sortResult.err = "nil"
               /\ EveryVertexOnce(sortInput.graph, sortResult.order)

\* C28 (amended): for a graph whose edges lead to keys of the graph, given a
\* stability list, the sorter reports the cyclic-dependencies error exactly when
\* the graph contains a cycle and otherwise returns, without error, every vertex
\* exactly once; a key list whose length is not the number of keys is answered
\* with the wrong-sorted-keys error, cycle or not.
C28_ClosedCyclicIffCycle ==
    /\ SortedWithStabilityList /\ Closed(sortInput.graph) =>
           /\ sortResult.err = "CyclicDependencies" <=> ~GraphAcyclic(sortInput.graph)
           /\ GraphAcyclic(sortInput.graph) =>
                  /\ sortResult.err = "nil"
                  /\ EveryVertexOnce(sortInput.graph, sortResult.order)
    /\ (/\ sortResult.err # "none"
        /\ Len(sortInput.sortedKeys) # Cardinality(DOMAIN sortInput.graph)) =>
           sortResult.err = "WrongSortedKeys"

\* 1 depends on 2, 2 on 3 and 3 on 2, with the stability list 1, 2, 3: the
\* sorter has reported the cycle.
C28_Witness ==
    /\ sortInput = [graph |-> [k \in {1, 2, 3} |->
                                  CASE k = 1 -> <<2>> [] k = 2 -> <<3>> [] OTHER -> <<2>>],
                    sortedKeys |-> <<1, 2, 3>>]
    /\ sortResult = [err |-> "CyclicDependencies", order |-> <<>>]

\* ------------------------------------------- producer goroutines: observations

\* The producers whose NotifyUpdated call has not returned.
InPass == {t \in Producers : threadPc[t] = "notified"}

\* At most one producer is inside NotifyUpdated, it holds the lock, and a pass is
\* in flight only then.
PassesNeverOverlap ==
    /\ Cardinality(InPass) <= 1
    /\ \A t \in InPass : mutex = t
    /\ callStack # <<>> => InPass # {}

\* C29: with every NotifyUpdated of a producer made under the lock and the
\* handlers notifying from inside the pass: passes never overlap and, on an
\* acyclic tree subscribed before the first notification, every pass starts
\* with no transient flag set and, when its handlers notify nodes of the root's
\* cached order, invokes each handler at most once and a node's handler only
\* after the handlers of the nodes it subscribes to have returned.
C29_SerializedPasses ==
    /\ PassesNeverOverlap
    /\ Documented => passStart = {}
    /\ C13_AtMostOnce
    /\ C12_DagOrder

\* ------------------------------------------- the store: collected graph

\* Number of times RegisterDependencies was invoked on object id.
Gathered(id) ==
    Cardinality({i \in 1..Len(log) : log[i] = <<"RegisterDependencies", id>>})

\* C30: RegisterDependencies is never invoked twice on an object; when
\* collectDependencies has returned to Init, it has been invoked exactly once on
\* every object of the canonical map and the graph has an entry for exactly
\* these objects; the coverage assertion of Init never fails.
C30_GraphCoversObjects ==
    /\ \A id \in IDs : Gathered(id) <= 1
    /\ pc = "sort" =>
           /\ DOMAIN dependenciesGraph = DOMAIN objects
           /\ \A id \in DOMAIN objects : Gathered(id) = 1
    /\ lastCall.err # Err("AssertionFailed")

\* Objects 1 and 2 were registered by the embedder and each of them registered
\* object 3: collectDependencies has returned with one entry for each of the three.
C30_Witness ==
    /\ pc = "sort"
    /\ DOMAIN objects = {1, 2, 3}
    /\ topLevelDependencies = {1, 2}
    /\ dependenciesGraph[1] = <<3>>
    /\ dependenciesGraph[2] = <<3>>
    /\ dependenciesGraph[3] = <<>>

\* The IDs object id registered in its RegisterDependencies call.
RegisteredBy(id) == {slots[i].id : i \in {j \in 1..Len(slots) : slots[j].by = id}}

\* C31: the graph entry of every object lists, once each, exactly the IDs the
\* object registered in its own RegisterDependencies call: none registered by
\* another object only, and all of its own, those processed earlier included.
C31_EntryIsOwnRegistrations ==
    \A id \in DOMAIN dependenciesGraph :
        /\ Range(dependenciesGraph[id]) = RegisteredBy(id)
        /\ Len(dependenciesGraph[id]) = Cardinality(RegisteredBy(id))

\* The embedder registered 1 and 2; 1 registered 2, 2 registered 3: the entry of
\* 1 holds 2, whether 2 was gathered before or after it, and not 3; the entry
\* of 2 holds 3.
C31_Witness ==
    /\ pc = "sort"
    /\ topLevelDependencies = {1, 2}
    /\ DOMAIN dependenciesGraph = {1, 2, 3}
    /\ dependenciesGraph[1] = <<2>>
    /\ dependenciesGraph[2] = <<3>>
    /\ dependenciesGraph[3] = <<>>

\* The IDs of the Register calls after the first k, in call order.
RegisteredSince(k) == [i \in 1..(Len(slots) - k) |-> slots[k + i].id]

\* C32: the queue holds, in call order, the IDs of all Register calls made since
\* the latest RecentlyRegisteredSharedObjects call, IDs already in the store
\* included; a call returns the queue and leaves it empty, so a call that
\* follows at once returns an empty list.
C32_ResetOnRead ==
    [][/\ recentlyRegisteredSharedObjects = RegisteredSince(recentRead.calls)
       /\ recentRead' # recentRead =>
              /\ recentRead'.result = RegisteredSince(recentRead.calls)
              /\ recentRead'.calls = Len(slots)
              /\ recentlyRegisteredSharedObjects' = <<>>
       /\ (recentRead'.calls = recentRead.calls /\ recentRead' # recentRead) =>
              recentRead'.result = <<>>]_vars

\* The queue was read twice with no Register call in between: the second call
\* returned nothing.
ReadTwiceAtOnce ==
    /\ recentRead.reads = 2
    /\ recentRead.calls > 0
    /\ recentRead.result = <<>>

\* Object 1 was registered twice and object 2 once in between, then the queue was
\* read, then 2 was registered again: the call returned 1, 2, 1 and the queue
\* holds 2.
C32_Witness ==
    /\ recentRead = [result |-> <<1, 2, 1>>, calls |-> 3, reads |-> 1]
    /\ recentlyRegisteredSharedObjects = <<2>>

\* ------------------------------------------- update tree: completeness

\* The nodes of the root's cached order that subscribe to the node notified at
\* entry k of the pass log.
NotifiedSubscribers(k) ==
    {M \in Range(treeUpdateOrder[PassRoot]) : Contains(subscribtions[M], passLog[k].node)}

Downstream(R) == {R} \cup ReachableFrom(subscribers, R)

\* Every NotifyUpdated of the latest pass made by a handler was on the handler's own node.
OwnNodeOnly == \A k \in Log : passLog[k].ev = "notify" => passLog[k].by = passLog[k].node

HandlerStarts ==
    /\ Len(passLog') = Len(passLog) + 1
    /\ passLog'[Len(passLog')].ev = "handler"

\* The sweeps whose first loop moves on to its next node in the step.
TurnsOver ==
    {d \in DOMAIN callStack \cap DOMAIN callStack' :
        /\ callStack[d].kind = "sweep"
        /\ callStack'[d] = [callStack[d] EXCEPT !.i = @ + 1]}

\* On an acyclic tree whose subscriptions were all made before the first
\* notification, whose handlers call NotifyUpdated only on nodes of the root's cached
\* order, the handler of the root of the pass has not been invoked.
RootHandlerNotInvoked ==
    \A k \in Log :
        InvokedAt(k, PassRoot) => ~(TargetsInCachedOrder /\ Documented)

\* C35: a sweep never invokes the handler of its own root, and as long as the
\* handlers notify nodes of the root's cached order no sweep nested in the pass does
\* either; a handler is invoked only for a node whose subscription-updated flag is
\* set at that moment; and when the first loop of a sweep moves on from a node,
\* whether or not the handler of the node ran, the flag of the node is clear.
C35_TurnOfANode ==
    [][/\ RootHandlerNotInvoked'
       /\ HandlerStarts =>
            LET last == passLog'[Len(passLog')]
            IN  /\ last.node # last.by
                /\ subscriptionUpdated[last.node]
       /\ \A d \in TurnsOver :
            ~subscriptionUpdated'[treeUpdateOrder[callStack[d].node][callStack[d].i]]]_vars

\* A pass from a root with a subscriber has returned: its log holds an invocation
\* of the subscriber's handler and none of the root's, and the root was visited
\* without its handler running.
C35_Witness ==
    /\ PassDone
    /\ Documented
    /\ subscribers[PassRoot] # <<>>
    /\ treeUpdateOrder[PassRoot][1] = PassRoot
    /\ \E k \in Log : passLog[k].ev = "handler" /\ Contains(subscribers[PassRoot], passLog[k].node)
    /\ \A k \in Log : ~InvokedAt(k, PassRoot)

\* ------------------------------------------- store: teardown after a failure

\* The latest lifecycle call is a Stop or a Close that invoked no hook.
TeardownInvokesNothing ==
    lastCall.op \in {"Stop", "Close"} => lastCall.hooks = <<>>

\* The latest lifecycle call is a Stop or a Close that invoked its hook on every
\* object of the initialization order, last initialized first.
TeardownInvokesAll ==
    /\ lastCall.op = "Stop" => lastCall.hooks = Tag(StopHook, Reverse(initializationOrder))
    /\ lastCall.op = "Close" => lastCall.hooks = Tag(CloseHook, Reverse(initializationOrder))

C37_FirstWriterWins ==
    [][\A id \in DOMAIN objects :
          /\ id \in DOMAIN objects'
          /\ Get(id)' = Get(id)]_vars

\* The whole lifecycle has been walked; a second object with an ID already present
\* was constructed and registered, by the embedder or by a hook, after the first
\* one, and Get still returns the first.
C37_Witness ==
    /\ pc = "idle"
    /\ phase = 4
    /\ \E i, j \in 1..Len(slots) :
         /\ i < j
         /\ slots[i].id = slots[j].id
         /\ slots[i].orig = slots[i].val
         /\ slots[j].orig # slots[i].orig
         /\ ~slots[j].panicked
         /\ Get(slots[i].id) = slots[i].orig

\* ------------------------------------------- pull buffer: the index check

\* The number of events the puller has still to read: countToPull of getEvents.
Unread(p) == eventsPushed - cursor[p]

\* C38: in every interleaving of NewPuller, Publish and Pull calls, no puller has
\* more events to read than the buffer holds, and no Pull has panicked with the
\* invalid event index.
C38_IndexPanicUnreachable ==
    lastLast.puller = 0 =>
        /\ pullResult = "none"
        /\ \A p \in Pullers : Unread(p) <= Len(events)

\* ------------------------------------------- update tree: flags between passes

\* No pass is in flight and none has ended in a panic.
BetweenPasses == callStack = <<>> /\ treeResult = "none"

\* C39: whenever no pass is in flight, the subscription-updated flag of every node
\* is false, whatever Subscribe and NotifyUpdated calls were made, subscriptions
\* added after the first pass of a root included; a NotifyUpdated of the embedder
\* therefore never returns before processUpdate.
C39_FlagsClearBetweenPasses ==
    BetweenPasses => \A n \in Nodes : ~subscriptionUpdated[n]

\* ------------------------------------------- store: objects registered after Init

\* The objects of the store that are not in the order stored by an Init that has
\* returned nil.
OutsideOrder == {id \in DOMAIN objects : inited /\ ~Contains(initializationOrder, id)}

\* The objects of the store that are not in the order stored by an Init that found
\* at least one object and returned nil.
RegisteredAfterInit ==
    {id \in DOMAIN objects : initializationOrder # <<>> /\ ~Contains(initializationOrder, id)}

\* The object is in the canonical map under its ID and every slot registered with the
\* ID holds the canonical instance; no hook of the object, RegisterDependencies
\* included, has been invoked.
HeldButIgnored(id) ==
    /\ \E i \in 1..Len(slots) : slots[i].id = id /\ slots[i].orig = Get(id)
    /\ \A i \in 1..Len(slots) : slots[i].id = id /\ ~slots[i].panicked => slots[i].val = Get(id)
    /\ \A k \in 1..Len(log) : log[k][2] # id

\* C40 (as stated): an object that is not in the order stored by a successful Init
\* is held by the canonical map and returned by Get, no later store call invokes
\* any of its hooks or moves it into the order, and no Start call made while there
\* is such an object returns the not-initialized error.
C40_OutsideOrderIgnored ==
    [][/\ \A id \in OutsideOrder : id \in OutsideOrder' /\ HeldButIgnored(id)'
       /\ (Start /\ OutsideOrder # {}) => lastCall'.err.kind # "NotInitialized"]_vars

\* C40 (amended): the same for the objects left out of the order stored by a
\* successful Init that found at least one object.
C40_RegisteredAfterInitIgnored ==
    [][/\ \A id \in RegisteredAfterInit : id \in RegisteredAfterInit' /\ HeldButIgnored(id)'
       /\ (Start /\ RegisteredAfterInit # {}) => lastCall'.err.kind # "NotInitialized"]_vars

\* An object was registered after a successful Init of another one; Start, Stop
\* and Close have run since, each invoking the hook of the initialized object, and
\* the late object is returned by Get with no hook invoked on it.
C40_Witness ==
    /\ pc = "idle"
    /\ phase = 4
    /\ ~failed
    /\ lastCall.op = "Close"
    /\ lastCall.hooks # <<>>
    /\ \E id \in RegisteredAfterInit :
         /\ HeldButIgnored(id)
         /\ \E i \in 1..Len(slots) : slots[i].id = id /\ slots[i].late /\ Get(id) = slots[i].orig

====
